---------------------------- MODULE Spec2Model ----------------------------
(***************************************************************************)
(* A model of the EigenTrust protocol core of duguorong009/protocol:       *)
(*   - the IVP message (protocol/src/manager/ivp.rs): generate and verify, *)
(*     with the f64 <-> fixed-point scaling computed bit-exactly;          *)
(*   - the peer trust model with default-returning caches                  *)
(*     (eigen-trust/src/peer.rs);                                          *)
(*   - the strict peer (src/peer.rs), whose cache lookups return errors.   *)
(* Numbers wider than TLC's integers (u32, u128, the 53-bit mantissa of an *)
(* f64) are little-endian sequences of 15-bit limbs.                       *)
(***************************************************************************)
EXTENDS Integers, Sequences, FiniteSets, TLC

VARIABLES
    \* ---- IVP exchange (protocol/src/manager/ivp.rs)
    pc,                       \* "idle" | "sent" | "done"
    msg,                      \* the IVP in flight (or NoMsg)
    gen,                      \* what IVP::generate computed and returned
    ver,                      \* what IVP::verify computed and returned
    \* ---- Peer with default-returning caches (eigen-trust/src/peer.rs)
    neighbors,                \* Vec<Option<PeerId>>
    neighbor_scores,          \* HashMap<PeerId, u32>
    cached_neighbor_opinion,  \* HashMap<(PeerId, Epoch), Opinion>
    cached_local_opinion,     \* HashMap<(PeerId, Epoch), Opinion>
    last,                     \* the last calculate_local_opinions call
    ret,                      \* what the last Peer call returned
    \* ---- strict Peer (src/peer.rs)
    neighbours,               \* Vec<Option<Neighbour>>
    cached_neighbour_opinion, \* HashMap<(PeerId, Epoch), Opinion>
    strict_local_opinion,     \* HashMap<(PeerId, Epoch), Opinion>
    strict_last,              \* the last strict call that ended the run
    strict_ret,               \* what the last strict Peer call returned
    \* ---- public-input codec (eigentrust/src/circuit.rs)
    inputs,                   \* the ETPublicInputs value built, if any
    bytes,                    \* the byte buffer at hand
    parsed,                   \* the last ETPublicInputs::from_bytes call
    \* ---- scheduler (protocol/src/utils.rs)
    clock,                    \* tokio's Instant::now()
    stream,                   \* the stream create_iter returned
    polled,                   \* what the last poll of the stream returned
    \* ---- epoch (src/epoch.rs)
    wall,                     \* SystemTime::now(), in seconds from UNIX_EPOCH
    epoch_ret                 \* what the last Epoch call returned

ivpVars == <<pc, msg, gen, ver>>
peerVars == <<neighbors, neighbor_scores, cached_neighbor_opinion,
              cached_local_opinion, last, ret>>
strictVars == <<neighbours, cached_neighbour_opinion, strict_local_opinion,
                strict_last, strict_ret>>
codecVars == <<inputs, bytes, parsed>>
schedVars == <<clock, stream, polled>>
epochVars == <<wall, epoch_ret>>
timeVars == <<schedVars, epochVars>>
vars == <<ivpVars, peerVars, strictVars, codecVars, timeVars>>

(***************************************************************************)
(* Unbounded naturals: little-endian limb sequences in base 2^15, with no  *)
(* most significant zero limb (<< >> is zero).                             *)
(***************************************************************************)
LimbBits == 16 - 1
Base == 2 ^ LimbBits

Limb(a, i) == IF i <= Len(a) THEN a[i] ELSE 0

RECURSIVE BigNorm(_)
BigNorm(a) ==
    IF a = << >> THEN a
    ELSE IF a[Len(a)] = 0 THEN BigNorm(SubSeq(a, 1, Len(a) - 1))
    ELSE a

RECURSIVE NatToBig(_)
NatToBig(n) == IF n = 0 THEN << >> ELSE <<n % Base>> \o NatToBig(n \div Base)

RECURSIVE BigAddFrom(_, _, _, _)
BigAddFrom(a, b, i, c) ==
    IF i > Len(a) /\ i > Len(b)
    THEN (IF c = 0 THEN << >> ELSE <<c>>)
    ELSE LET s == Limb(a, i) + Limb(b, i) + c
         IN  <<s % Base>> \o BigAddFrom(a, b, i + 1, s \div Base)

BigAdd(a, b) == BigAddFrom(a, b, 1, 0)

\* a - b for a >= b
RECURSIVE BigSubFrom(_, _, _, _)
BigSubFrom(a, b, i, br) ==
    IF i > Len(a) THEN << >>
    ELSE LET d == a[i] - Limb(b, i) - br
         IN  IF d < 0 THEN <<d + Base>> \o BigSubFrom(a, b, i + 1, 1)
                      ELSE <<d>> \o BigSubFrom(a, b, i + 1, 0)

BigSub(a, b) == BigNorm(BigSubFrom(a, b, 1, 0))

RECURSIVE BigCmpAt(_, _, _)
BigCmpAt(a, b, i) ==
    IF i = 0 THEN 0
    ELSE IF a[i] < b[i] THEN -1
    ELSE IF a[i] > b[i] THEN 1
    ELSE BigCmpAt(a, b, i - 1)

\* -1, 0, 1 as a < b, a = b, a > b
BigCmp(a, b) ==
    IF Len(a) < Len(b) THEN -1
    ELSE IF Len(a) > Len(b) THEN 1
    ELSE BigCmpAt(a, b, Len(a))

\* a * d + c for 0 <= d, c < Base
RECURSIVE BigMulSmallFrom(_, _, _, _)
BigMulSmallFrom(a, d, i, c) ==
    IF i > Len(a) THEN (IF c = 0 THEN << >> ELSE <<c>>)
    ELSE LET p == a[i] * d + c
         IN  <<p % Base>> \o BigMulSmallFrom(a, d, i + 1, p \div Base)

BigMulSmall(a, d) == IF d = 0 THEN << >> ELSE BigMulSmallFrom(a, d, 1, 0)

BigShiftLimbs(a, k) == IF a = << >> THEN a ELSE [i \in 1..k |-> 0] \o a

RECURSIVE BigMulFrom(_, _, _)
BigMulFrom(a, b, i) ==
    IF i > Len(b) THEN << >>
    ELSE BigAdd(BigShiftLimbs(BigMulSmall(a, b[i]), i - 1), BigMulFrom(a, b, i + 1))

BigMul(a, b) == BigMulFrom(a, b, 1)

\* a * 2^k
BigShl(a, k) == BigShiftLimbs(BigMulSmall(a, 2 ^ (k % LimbBits)), k \div LimbBits)

\* floor(a / d) for 0 < d < Base, from the most significant limb down
RECURSIVE BigDivSmallFrom(_, _, _, _)
BigDivSmallFrom(a, d, i, r) ==
    IF i = 0 THEN << >>
    ELSE LET x == r * Base + a[i]
         IN  BigDivSmallFrom(a, d, i - 1, x % d) \o <<x \div d>>

BigDivSmall(a, d) == BigNorm(BigDivSmallFrom(a, d, Len(a), 0))

\* floor(a / 2^k)
BigShr(a, k) ==
    LET w == k \div LimbBits
    IN  IF w >= Len(a) THEN << >>
        ELSE BigDivSmall(SubSeq(a, w + 1, Len(a)), 2 ^ (k % LimbBits))

\* a mod 2^k
BigLowBits(a, k) ==
    LET w == k \div LimbBits
        b == k % LimbBits
    IN  IF w >= Len(a) THEN a
        ELSE BigNorm(SubSeq(a, 1, w) \o <<a[w + 1] % (2 ^ b)>>)

RECURSIVE SmallBitLen(_)
SmallBitLen(n) == IF n = 0 THEN 0 ELSE 1 + SmallBitLen(n \div 2)

BigBitLen(a) ==
    IF a = << >> THEN 0 ELSE LimbBits * (Len(a) - 1) + SmallBitLen(a[Len(a)])

\* bit i (1 = least significant) of a
BigBit(a, i) ==
    LET w == (i - 1) \div LimbBits
        b == (i - 1) % LimbBits
    IN  (Limb(a, w + 1) \div (2 ^ b)) % 2

BigIsOdd(a) == a # << >> /\ a[1] % 2 = 1

RECURSIVE SmallTrailingZeros(_)
SmallTrailingZeros(n) == IF n % 2 = 1 THEN 0 ELSE 1 + SmallTrailingZeros(n \div 2)

\* the number of trailing zero bits of a # 0
RECURSIVE BigTrailingZerosFrom(_, _)
BigTrailingZerosFrom(a, i) ==
    IF a[i] = 0 THEN LimbBits + BigTrailingZerosFrom(a, i + 1)
    ELSE SmallTrailingZeros(a[i])

BigTrailingZeros(a) == BigTrailingZerosFrom(a, 1)

\* the largest d <= est with b * d <= r
RECURSIVE BigDigitFix(_, _, _)
BigDigitFix(b, r, est) ==
    IF BigCmp(BigMulSmall(b, est), r) > 0 THEN BigDigitFix(b, r, est - 1) ELSE est

\* floor(r / b) for r < b * Base and the top limb of b at least Base / 2: the
\* two top limbs of r over the top limb of b overestimate it by at most 2
BigDigit(b, r) ==
    LET n == Len(b)
        est == (Limb(r, n + 1) * Base + Limb(r, n)) \div b[n]
    IN  BigDigitFix(b, r, IF est >= Base THEN Base - 1 ELSE est)

\* schoolbook long division, one limb of a at a time from the top (the test
\* on Len(q) makes the evaluator compute q at every step)
RECURSIVE BigDivModFrom(_, _, _, _, _)
BigDivModFrom(a, b, i, q, r) ==
    IF i = 0 \/ Len(q) < 0 THEN <<q, r>>
    ELSE LET r2 == BigNorm(<<a[i]>> \o r)
             d == BigDigit(b, r2)
         IN  BigDivModFrom(a, b, i - 1, <<d>> \o q, BigSub(r2, BigMulSmall(b, d)))

\* <<floor(a / b), a mod b>> for b # 0
BigDivMod(a, b) ==
    LET sh == LimbBits - SmallBitLen(b[Len(b)])
        x == BigShl(a, sh)
        qr == BigDivModFrom(x, BigShl(b, sh), Len(x), << >>, << >>)
    IN  <<BigNorm(qr[1]), BigShr(qr[2], sh)>>

\* a value of the model's naturals that fits a TLC integer
RECURSIVE BigToNat(_)
BigToNat(a) == IF a = << >> THEN 0 ELSE a[1] + Base * BigToNat(Tail(a))

(***************************************************************************)
(* IEEE-754 binary64 (Rust's f64), round to nearest, ties to even.  A      *)
(* finite value is (-1)^s * m * 2^e with m odd (m = << >> for zero, which  *)
(* keeps its sign); k tells finite numbers from infinities and NaN.  The   *)
(* exponent range is not modelled below the normal range: every value the  *)
(* model computes lies between 2^-200 and 2^200.                           *)
(***************************************************************************)
MantBits == 53

F64Nan == [k |-> "nan", s |-> 0, m |-> << >>, e |-> 0]
F64Inf(s) == [k |-> "inf", s |-> s, m |-> << >>, e |-> 0]
F64Zero(s) == [k |-> "num", s |-> s, m |-> << >>, e |-> 0]
F64IsZero(a) == a.k = "num" /\ a.m = << >>

\* the canonical record of (-1)^s * m * 2^e
F64Canon(s, m, e) ==
    IF m = << >> THEN F64Zero(s)
    ELSE LET tz == BigTrailingZeros(m)
         IN  IF BigBitLen(m) + e > 1024 THEN F64Inf(s)
             ELSE [k |-> "num", s |-> s, m |-> BigShr(m, tz), e |-> e + tz]

\* (-1)^s * (q + f) * 2^e rounded to 53 bits, where 0 <= f < 1 and f # 0 iff
\* sticky; q has at least 54 bits whenever sticky holds
F64RoundTo(s, q, sticky, e) ==
    LET len == BigBitLen(q)
    IN  IF len <= MantBits THEN F64Canon(s, q, e)
        ELSE LET drop == len - MantBits
                 mant == BigShr(q, drop)
                 rem == BigLowBits(q, drop)
                 half == BigShl(<<1>>, drop - 1)
                 c == BigCmp(rem, half)
                 up == c > 0 \/ (c = 0 /\ (sticky \/ BigIsOdd(mant)))
             IN  F64Canon(s, IF up THEN BigAdd(mant, <<1>>) ELSE mant, e + drop)

\* `x as f64` for an unsigned integer x, and f64::from(u32)
F64FromBig(x) == F64RoundTo(0, x, FALSE, 0)

F64Neg(a) == IF a.k = "nan" THEN a ELSE [a EXCEPT !.s = 1 - a.s]

F64Mul(a, b) ==
    LET s == (a.s + b.s) % 2
    IN  IF a.k = "nan" \/ b.k = "nan" THEN F64Nan
        ELSE IF a.k = "inf" \/ b.k = "inf"
             THEN (IF F64IsZero(a) \/ F64IsZero(b) THEN F64Nan ELSE F64Inf(s))
        ELSE F64RoundTo(s, BigMul(a.m, b.m), FALSE, a.e + b.e)

F64Div(a, b) ==
    LET s == (a.s + b.s) % 2
    IN  IF a.k = "nan" \/ b.k = "nan" THEN F64Nan
        ELSE IF a.k = "inf" THEN (IF b.k = "inf" THEN F64Nan ELSE F64Inf(s))
        ELSE IF b.k = "inf" THEN F64Zero(s)
        ELSE IF F64IsZero(b) THEN (IF F64IsZero(a) THEN F64Nan ELSE F64Inf(s))
        ELSE IF F64IsZero(a) THEN F64Zero(s)
        ELSE LET sh == MantBits + 1 - (BigBitLen(a.m) - BigBitLen(b.m))
                 qr == BigDivMod(BigShl(a.m, sh), b.m)
             IN  F64RoundTo(s, qr[1], qr[2] # << >>, a.e - b.e - sh)

F64Add(a, b) ==
    IF a.k = "nan" \/ b.k = "nan" THEN F64Nan
    ELSE IF a.k = "inf"
         THEN (IF b.k = "inf" /\ b.s # a.s THEN F64Nan ELSE a)
    ELSE IF b.k = "inf" THEN b
    ELSE IF F64IsZero(a) /\ F64IsZero(b)
         THEN F64Zero(IF a.s = 1 /\ b.s = 1 THEN 1 ELSE 0)
    ELSE IF F64IsZero(a) THEN b
    ELSE IF F64IsZero(b) THEN a
    ELSE LET e == IF a.e < b.e THEN a.e ELSE b.e
             x == BigShl(a.m, a.e - e)
             y == BigShl(b.m, b.e - e)
             c == BigCmp(x, y)
         IN  IF a.s = b.s THEN F64RoundTo(a.s, BigAdd(x, y), FALSE, e)
             ELSE IF c = 0 THEN F64Zero(0)
             ELSE IF c > 0 THEN F64RoundTo(a.s, BigSub(x, y), FALSE, e)
             ELSE F64RoundTo(b.s, BigSub(y, x), FALSE, e)

F64Sub(a, b) == F64Add(a, F64Neg(b))

\* f64's == (PartialEq): NaN equals nothing, and -0.0 == 0.0
F64Eq(a, b) ==
    /\ a.k # "nan"
    /\ b.k # "nan"
    /\ \/ a = b
       \/ F64IsZero(a) /\ F64IsZero(b)

\* f64::round: to the nearest integer, halves away from zero
F64RoundF(a) ==
    IF a.k # "num" \/ a.e >= 0 THEN a
    ELSE LET n == 0 - a.e
             q == BigShr(a.m, n)
             up == BigBit(a.m, n) = 1
         IN  F64Canon(a.s, IF up THEN BigAdd(q, <<1>>) ELSE q, 0)

U128Max == BigSub(BigShl(<<1>>, 128), <<1>>)

\* `a as u128`: truncates, saturates, and sends NaN to 0
F64AsU128(a) ==
    IF a.k = "nan" THEN << >>
    ELSE IF a.s = 1 THEN << >>
    ELSE IF a.k = "inf" THEN U128Max
    ELSE LET x == IF a.e >= 0 THEN BigShl(a.m, a.e) ELSE BigShr(a.m, 0 - a.e)
         IN  IF BigCmp(x, U128Max) > 0 THEN U128Max ELSE x

\* the f64 a decimal literal n / d denotes (the nearest double)
F64Lit(n, d) == F64Div(F64FromBig(NatToBig(n)), F64FromBig(NatToBig(d)))

(***************************************************************************)
(* The scalar field, the Poseidon permutation and the proof system.  They  *)
(* are collaborators of the IVP code: a scalar is either a small integer   *)
(* (from_u128) or the first output word of a permutation, kept as the term *)
(* of its five inputs, so two hashes are equal iff their inputs are.       *)
(***************************************************************************)
FrFromBig(x) == [t |-> "int", v |-> x]
FrFromNat(n) == FrFromBig(NatToBig(n))
FrZero == FrFromBig(<< >>)

\* Posedion5x5::new(input).permute()[0]
Permute0(input) == [t |-> "hash", v |-> input]

generate_keypair_from_sk(sk) == Permute0(<<FrZero, FrZero, FrZero, FrZero, sk>>)

\* Bn256Scalar::to_bytes, and a 32-byte buffer that encodes no scalar (a
\* value at or above the modulus, such as [0xFF; 32])
FrToBytes(f) == [canonical |-> TRUE, fr |-> f]
NonCanonicalBytes == [canonical |-> FALSE, fr |-> FrZero]
ZeroBytes == FrToBytes(FrZero)

\* Bn256Scalar::from_bytes: a CtOption
FrFromBytes(b) == [is_some |-> b.canonical, value |-> b.fr]

\* Proof bytes: a proof of a satisfied circuit for the public input stmt; a
\* proof the prover wrote for a circuit its witness does not satisfy; bytes
\* the verifier backend cannot read.
ValidProof(stmt) == [kind |-> "valid", stmt |-> stmt]
UnsatProof(stmt) == [kind |-> "unsat", stmt |-> stmt]
GarbageProof == [kind |-> "garbage", stmt |-> FrZero]

\* prove(params, circuit, &[&pub_ins], pk, rng): Err, or the proof bytes
prove(pub_in) ==
    {[is_err |-> TRUE, bytes |-> GarbageProof]}
        \cup {[is_err |-> FALSE, bytes |-> p] :
                 p \in {ValidProof(pub_in), UnsatProof(pub_in), GarbageProof}}

\* verify(params, &[&pub_ins], proof_bytes, vk): "err", "true" or "false"
verify(pub_in, proof_bytes) ==
    IF proof_bytes.kind = "garbage" THEN "err"
    ELSE IF proof_bytes.kind = "valid" /\ proof_bytes.stmt = pub_in THEN "true"
    ELSE "false"

(***************************************************************************)
(* IVP (protocol/src/manager/ivp.rs)                                       *)
(***************************************************************************)
SCALE == 100000000
SCALE_F == F64FromBig(NatToBig(SCALE))

MAX_NEIGHBORS == 2
MaxEpoch == 1
MaxIter == 1

BOOTSTRAP_SCORE == F64Lit(1, 2)

Sk(n) == FrFromNat(n)
\* the bootstrap peers' configured public keys
bootstrap_pubkeys == {generate_keypair_from_sk(Sk(1))}

\* the inputs the model draws from
Issuers == {Sk(1), Sk(2)}
Verifiers == {Sk(2), Sk(3)}
Targets == {generate_keypair_from_sk(sk) : sk \in Verifiers}
ClaimedIssuers == {generate_keypair_from_sk(sk) : sk \in Issuers}
Epochs == 0..MaxEpoch
Iters == 0..MaxIter
OpInputs == {F64Zero(0), F64Lit(33986811, SCALE)}
CvInputs == {F64Zero(0), F64Lit(1, 2), F64Lit(66259402, SCALE)}

\* (x * SCALE).round() as u128
ScaleRound(x) == F64AsU128(F64RoundF(F64Mul(x, SCALE_F)))

bootstrap_score_scaled == ScaleRound(BOOTSTRAP_SCORE)

\* op_ji.map(|op| (op * SCALE).round() as u128).iter().sum()
RECURSIVE t_i_scaled_from(_, _)
t_i_scaled_from(op_ji, i) ==
    IF i > Len(op_ji) THEN << >>
    ELSE BigAdd(ScaleRound(op_ji[i]), t_i_scaled_from(op_ji, i + 1))

t_i_scaled(op_ji) == t_i_scaled_from(op_ji, 1)

\* the override applied at every iteration
IsBootstrapRunAnyIter(pk_p, k) == pk_p \in bootstrap_pubkeys

\* is_bootstrap && is_first_iter
IsBootstrapRun(pk_p, k) == pk_p \in bootstrap_pubkeys /\ k = 0

t_i_final(pk_p, k, op_ji) ==
    IF IsBootstrapRun(pk_p, k) THEN bootstrap_score_scaled ELSE t_i_scaled(op_ji)

op_v_scaled(t, c_v) == BigMul(t, ScaleRound(c_v))

\* (op_v_scaled as f64) / (SCALE * SCALE)
op_v_unscaled(x) == F64Div(F64FromBig(x), F64Mul(SCALE_F, SCALE_F))

\* permute([epoch_f, iter_f, op_v_f, pk_v, pk_p])[0]
m_hash_of(epoch, iter, op_scaled, pk_v, pk_p) ==
    Permute0(<<FrFromNat(epoch), FrFromNat(iter), FrFromBig(op_scaled), pk_v, pk_p>>)

IVPOf(epoch, iter, op, proof_bytes, m_hash) ==
    [epoch |-> epoch, iter |-> iter, op |-> op, proof_bytes |-> proof_bytes,
     m_hash |-> m_hash]

\* IVP::new
IVPNew(epoch, iter, op, proof_bytes) ==
    IVPOf(epoch, iter, op, proof_bytes, ZeroBytes)

\* what generate returns once the prover has answered pr
GenerateResult(m_hash, pr) ==
    IF pr.is_err THEN "ProvingError"
    ELSE LET proof_res == verify(m_hash, pr.bytes)
         IN  IF proof_res = "err" THEN "VerificationError"
             ELSE IF proof_res = "false" THEN "panic"
             ELSE "Ok"

NoGen ==
    [sk |-> FrZero, pk_v |-> FrZero, epoch |-> 0, k |-> 0, op_ji |-> << >>,
     c_v |-> F64Zero(0), pk_p |-> FrZero, t_i_final |-> << >>,
     op_v_scaled |-> << >>, m_hash |-> FrZero, prover |-> "none",
     self_check |-> "none", result |-> "none", out |-> << >>]

NoVer ==
    [sk_p |-> FrZero, pubkey_p |-> FrZero, pk_v |-> FrZero,
     op_v_scaled |-> << >>, m_hash |-> FrZero, called |-> FALSE,
     pub_in |-> FrZero, answer |-> "none", result |-> "none"]

\* IVP::generate(sig, pk_v, epoch, k, op_ji, c_v, params, pk)
Generate(sk, pk_v, epoch, k, op_ji, c_v) ==
    /\ pc = "idle"
    /\ LET pk_p == generate_keypair_from_sk(sk)
           t == t_i_final(pk_p, k, op_ji)
           x == op_v_scaled(t, c_v)
           m_hash == m_hash_of(epoch, k, x, pk_v, pk_p)
       IN  \E pr \in prove(m_hash) :
             LET result == GenerateResult(m_hash, pr)
                 out == IF result = "Ok"
                        THEN <<IVPOf(epoch, k, op_v_unscaled(x), pr.bytes,
                                     FrToBytes(m_hash))>>
                        ELSE << >>
             IN  /\ gen' = [sk |-> sk, pk_v |-> pk_v, epoch |-> epoch, k |-> k,
                            op_ji |-> op_ji, c_v |-> c_v, pk_p |-> pk_p,
                            t_i_final |-> t, op_v_scaled |-> x, m_hash |-> m_hash,
                            prover |-> IF pr.is_err THEN "err" ELSE pr.bytes.kind,
                            self_check |-> IF pr.is_err THEN "none"
                                           ELSE verify(m_hash, pr.bytes),
                            result |-> result, out |-> out]
                 /\ msg' = out
                 /\ pc' = IF result = "Ok" THEN "sent" ELSE "done"
    /\ UNCHANGED <<ver, peerVars, strictVars, codecVars, timeVars>>

\* The message reaches the verifier with one field changed on the way.
TamperedOps == {F64Zero(0), F64Lit(1, 2), F64Neg(F64Lit(1, 2))}

Tamper ==
    /\ pc = "sent"
    /\ \E m \in
            {[msg[1] EXCEPT !.epoch = e] : e \in Epochs}
              \cup {[msg[1] EXCEPT !.iter = i] : i \in Iters}
              \cup {[msg[1] EXCEPT !.op = o] : o \in TamperedOps}
              \cup {[msg[1] EXCEPT !.m_hash = h] : h \in {ZeroBytes, NonCanonicalBytes}}
              \cup {[msg[1] EXCEPT !.proof_bytes = p] :
                       p \in {GarbageProof, UnsatProof(msg[1].proof_bytes.stmt)}} :
          /\ m # msg[1]
          /\ msg' = <<m>>
    /\ pc' = "received"
    /\ UNCHANGED <<gen, ver, peerVars, strictVars, codecVars, timeVars>>

\* The receiver rebuilds the message from its fields with IVP::new.
Rebuild ==
    /\ pc = "sent"
    /\ msg' = <<IVPNew(msg[1].epoch, msg[1].iter, msg[1].op, msg[1].proof_bytes)>>
    /\ pc' = "received"
    /\ UNCHANGED <<gen, ver, peerVars, strictVars, codecVars, timeVars>>

\* (self.op * SCALE * SCALE).round() as u128
RecoverScaled(op) == F64AsU128(F64RoundF(F64Mul(F64Mul(op, SCALE_F), SCALE_F)))

\* the hash IVP::verify hands to the verifier
final_hash(op_scaled, m_hash_passed, m_hash) ==
    IF FrFromBig(op_scaled) = FrZero THEN m_hash_passed ELSE m_hash

\* IVP::verify(&self, sk_p, pubkey_p, params, vk)
Verify(sk_p, pubkey_p) ==
    /\ pc \in {"sent", "received"}
    /\ LET self == msg[1]
           pk_v == generate_keypair_from_sk(sk_p)
           x == RecoverScaled(self.op)
           m_hash == m_hash_of(self.epoch, self.iter, x, pk_v, pubkey_p)
           passed == FrFromBytes(self.m_hash)
           pub_in == final_hash(x, passed.value, m_hash)
           proof_res == verify(pub_in, self.proof_bytes)
       IN  ver' = [sk_p |-> sk_p, pubkey_p |-> pubkey_p, pk_v |-> pk_v,
                   op_v_scaled |-> x, m_hash |-> m_hash,
                   called |-> passed.is_some,
                   pub_in |-> IF passed.is_some THEN pub_in ELSE FrZero,
                   answer |-> IF passed.is_some THEN proof_res ELSE "none",
                   result |-> IF ~passed.is_some THEN "panic"
                              ELSE IF proof_res = "err" THEN "VerificationError"
                              ELSE IF proof_res = "true" THEN "Ok(true)"
                              ELSE "Ok(false)"]
    /\ pc' = "done"
    /\ UNCHANGED <<msg, gen, peerVars, strictVars, codecVars, timeVars>>

(***************************************************************************)
(* Peer with default-returning caches (eigen-trust/src/peer.rs)            *)
(***************************************************************************)
\* Peer::new(num_neighbors, pre_trust_score, pre_trust_weight)
NumNeighbors == 2
pre_trust_score == F64Lit(1, 2)
pre_trust_weight == F64Lit(1, 2)

PeerIds == {"p1", "p2", "p3"}
None == "none"
CalcEpochs == {0, 1}
\* the ratings set_score is called with: 5, and 2^31
Scores == {<<5>>, BigShl(<<1>>, 31)}
U32Modulus == BigShl(<<1>>, 32)

\* Rust's integer overflow: a debug build panics, a release build wraps
BuildModes == {"debug", "release"}

\* HashMap::new, HashMap::insert
EmptyMap == [x \in {} |-> 0]

MapInsert(map, key, value) ==
    [x \in DOMAIN map \cup {key} |-> IF x = key THEN value ELSE map[x]]

OpinionNew(k, local_trust_score, global_trust_score, product) ==
    [k |-> k, local_trust_score |-> local_trust_score,
     global_trust_score |-> global_trust_score, product |-> product]

OpinionEmpty(k) == OpinionNew(k, F64Zero(0), F64Zero(0), F64Zero(0))

\* Epoch::next
EpochNext(k) == k + 1

\* the opinions the model lets a neighbor send for epoch k, and the stale
\* local opinion it lets a caller cache
Tenth == F64Lit(1, 10)
Hundredth == F64Lit(1, 100)
Half == F64Lit(1, 2)
Quarter == F64Lit(1, 4)
ReceivedOpinion(k) == OpinionNew(k, Tenth, Tenth, Hundredth)
ReceivedEpochs == {0}
StaleOpinion(k) == OpinionNew(k, Half, Half, Quarter)
StaleEpochs == {1}
StalePeers == {"p1"}

\* self.neighbors.iter().filter_map(|&x| x).collect()
RECURSIVE FilterSome(_, _)
FilterSome(slots, i) ==
    IF i > Len(slots) THEN << >>
    ELSE IF slots[i] = None THEN FilterSome(slots, i + 1)
    ELSE <<slots[i]>> \o FilterSome(slots, i + 1)

Neighbors == FilterSome(neighbors, 1)

\* self.neighbors.iter().position(pred), 0 for None
RECURSIVE Position(_, _, _)
Position(slots, x, i) ==
    IF i > Len(slots) THEN 0
    ELSE IF slots[i] = x THEN i
    ELSE Position(slots, x, i + 1)

\* Peer::add_neighbor
AddNeighbor(peer_id) ==
    /\ last.op = "none"
    /\ LET index == Position(neighbors, None, 1)
       IN  neighbors' =
             IF Position(neighbors, peer_id, 1) # 0 THEN neighbors
             ELSE IF index = 0 THEN neighbors
             ELSE [neighbors EXCEPT ![index] = peer_id]
    /\ ret' = IF Position(neighbors, peer_id, 1) # 0 THEN "Ok"
              ELSE IF Position(neighbors, None, 1) = 0 THEN "MaxNeighboursReached"
              ELSE "Ok"
    /\ UNCHANGED <<neighbor_scores, cached_neighbor_opinion, cached_local_opinion,
                   last, ivpVars, strictVars, codecVars, timeVars>>

\* removal that also erases the removed peer's cached local opinions
RemoveNeighborErasing(peer_id) ==
    /\ last.op = "none"
    /\ neighbors' = [i \in 1..Len(neighbors) |->
                        IF neighbors[i] = peer_id THEN None ELSE neighbors[i]]
    /\ cached_local_opinion' =
         [key \in {x \in DOMAIN cached_local_opinion : x[1] # peer_id} |->
             cached_local_opinion[key]]
    /\ ret' = "Ok"
    /\ UNCHANGED <<neighbor_scores, cached_neighbor_opinion, last, ivpVars, strictVars, codecVars, timeVars>>

\* Peer::remove_neighbor
RemoveNeighbor(peer_id) ==
    /\ last.op = "none"
    /\ LET index == Position(neighbors, peer_id, 1)
       IN  neighbors' =
             IF index # 0 THEN [neighbors EXCEPT ![index] = None] ELSE neighbors
    /\ ret' = "Ok"
    /\ UNCHANGED <<neighbor_scores, cached_neighbor_opinion, cached_local_opinion,
                   last, ivpVars, strictVars, codecVars, timeVars>>

\* Peer::set_score
SetScore(peer_id, score) ==
    /\ last.op = "none"
    /\ neighbor_scores' = MapInsert(neighbor_scores, peer_id, score)
    /\ ret' = "Ok"
    /\ UNCHANGED <<neighbors, cached_neighbor_opinion, cached_local_opinion,
                   last, ivpVars, strictVars, codecVars, timeVars>>

\* a lookup whose default opinion carries epoch 0, not the key's epoch
get_neighbor_opinion_epoch0(key) ==
    IF key \in DOMAIN cached_neighbor_opinion
    THEN cached_neighbor_opinion[key] ELSE OpinionEmpty(0)

\* Peer::get_neighbor_opinion, Peer::get_local_opinion
get_neighbor_opinion(key) ==
    IF key \in DOMAIN cached_neighbor_opinion
    THEN cached_neighbor_opinion[key] ELSE OpinionEmpty(key[2])

get_local_opinion(key) ==
    IF key \in DOMAIN cached_local_opinion
    THEN cached_local_opinion[key] ELSE OpinionEmpty(key[2])

\* a cache_neighbor_opinion that computes the local opinions of the epoch
\* already calculated over again
CacheNeighborOpinionRecomputing(key, opinion) ==
    /\ last.op = "none" \/ (last.result = "ok" /\ key[2] <= last.epoch)
    /\ cached_neighbor_opinion' = MapInsert(cached_neighbor_opinion, key, opinion)
    /\ cached_local_opinion' =
         IF last.op = "none" THEN cached_local_opinion
         ELSE LET global_score ==
                      F64Add(F64Mul(F64Sub(F64FromBig(<<1>>), pre_trust_weight),
                                    opinion.product),
                             last.global_score)
              IN  [k \in DOMAIN cached_local_opinion |->
                      IF k[2] = EpochNext(last.epoch)
                      THEN [cached_local_opinion[k] EXCEPT
                               !.global_trust_score = global_score]
                      ELSE cached_local_opinion[k]]
    /\ ret' = "Ok"
    /\ UNCHANGED <<neighbors, neighbor_scores, last, ivpVars, strictVars, codecVars, timeVars>>

\* Peer::cache_neighbor_opinion; after calculate_local_opinions(E) the model
\* follows the late opinions, those of an epoch up to E
CacheNeighborOpinion(key, opinion) ==
    /\ last.op = "none" \/ (last.result = "ok" /\ key[2] <= last.epoch)
    /\ cached_neighbor_opinion' = MapInsert(cached_neighbor_opinion, key, opinion)
    /\ ret' = "Ok"
    /\ UNCHANGED <<neighbors, neighbor_scores, cached_local_opinion,
                   last, ivpVars, strictVars, codecVars, timeVars>>

\* Peer::cache_local_opinion
CacheLocalOpinion(key, opinion) ==
    /\ last.op = "none"
    /\ cached_local_opinion' = MapInsert(cached_local_opinion, key, opinion)
    /\ ret' = "Ok"
    /\ UNCHANGED <<neighbors, neighbor_scores, cached_neighbor_opinion,
                   last, ivpVars, strictVars, codecVars, timeVars>>

\* self.neighbor_scores.get(&peer_id).unwrap_or(&0)
ScoreOf(peer_id) ==
    IF peer_id \in DOMAIN neighbor_scores THEN neighbor_scores[peer_id] ELSE << >>

\* the loop of get_sum_of_scores, over unbounded integers
RECURSIVE SumScoresFrom(_, _)
SumScoresFrom(ids, i) ==
    IF i > Len(ids) THEN << >>
    ELSE BigAdd(ScoreOf(ids[i]), SumScoresFrom(ids, i + 1))

\* a u32 sum: every partial sum is below the total, so `sum += score`
\* overflows iff the total does not fit
U32Sum(total, mode) ==
    IF BigCmp(total, U32Modulus) < 0 THEN [panic |-> FALSE, value |-> total]
    ELSE IF mode = "debug" THEN [panic |-> TRUE, value |-> << >>]
    ELSE [panic |-> FALSE, value |-> BigDivMod(total, U32Modulus)[2]]

\* a sum over every rated identity, neighbor or not
get_sum_of_all_scores(mode) ==
    U32Sum(BigAdd(ScoreOf("p1"), BigAdd(ScoreOf("p2"), ScoreOf("p3"))), mode)

\* Peer::get_sum_of_scores
get_sum_of_scores(mode) == U32Sum(SumScoresFrom(Neighbors, 1), mode)

\* Peer::get_normalized_score
get_normalized_score(score, mode) ==
    LET sum == get_sum_of_scores(mode)
    IN  IF sum.panic THEN [panic |-> TRUE, value |-> F64Nan]
        ELSE [panic |-> FALSE,
              value |-> F64Div(F64FromBig(score), F64FromBig(sum.value))]

\* the loop of calculate_global_trust_score: global_score += product
RECURSIVE SumProductsFrom(_, _, _, _)
SumProductsFrom(ids, epoch, i, acc) ==
    IF i > Len(ids) THEN acc
    ELSE SumProductsFrom(ids, epoch, i + 1,
                         F64Add(acc, get_neighbor_opinion(<<ids[i], epoch>>).product))

\* Peer::calculate_global_trust_score
calculate_global_trust_score(epoch) ==
    LET global_score == SumProductsFrom(Neighbors, epoch, 1, F64Zero(0))
    IN  F64Add(F64Mul(F64Sub(F64FromBig(<<1>>), pre_trust_weight), global_score),
               F64Mul(pre_trust_weight, pre_trust_score))

\* the opinion calculate_local_opinions builds for one neighbor
LocalOpinion(peer_id, k, global_score, mode) ==
    LET normalized_score == get_normalized_score(ScoreOf(peer_id), mode).value
    IN  OpinionNew(EpochNext(k), normalized_score, global_score,
                   F64Mul(global_score, normalized_score))

\* the key calculate_local_opinions caches an opinion under
LocalKey(peer_id, opinion) == <<peer_id, opinion.k>>

\* the cache after the second loop of calculate_local_opinions
RECURSIVE CacheAll(_, _, _, _, _, _)
CacheAll(cache, ids, k, global_score, mode, i) ==
    IF i > Len(ids) THEN cache
    ELSE LET opinion == LocalOpinion(ids[i], k, global_score, mode)
         IN  CacheAll(MapInsert(cache, LocalKey(ids[i], opinion), opinion),
                      ids, k, global_score, mode, i + 1)

NoCall ==
    [op |-> "none", epoch |-> 0, mode |-> "none", global_score |-> F64Zero(0),
     result |-> "none"]

\* Peer::calculate_local_opinions
CalculateLocalOpinions(k, mode) ==
    /\ last.op = "none"
    /\ LET global_score == calculate_global_trust_score(k)
           panics == Neighbors # << >> /\ get_sum_of_scores(mode).panic
       IN  /\ cached_local_opinion' =
                IF panics THEN cached_local_opinion
                ELSE CacheAll(cached_local_opinion, Neighbors, k, global_score, mode, 1)
           /\ last' = [op |-> "calculate_local_opinions", epoch |-> k, mode |-> mode,
                       global_score |-> global_score,
                       result |-> IF panics THEN "panic" ELSE "ok"]
           /\ ret' = IF panics THEN "panic" ELSE "Ok"
    /\ UNCHANGED <<neighbors, neighbor_scores, cached_neighbor_opinion,
                   ivpVars, strictVars, codecVars, timeVars>>

(***************************************************************************)
(* The strict Peer (src/peer.rs): a Neighbour carries its own score, and a *)
(* cache miss is the error OpinionNotFound.  An Option is a sequence of    *)
(* length 0 or 1.                                                          *)
(***************************************************************************)
MaxRating == 2

\* Neighbour::new
NeighbourNew(peer_id) == [peer_id |-> peer_id, score |-> << >>]

\* position(|n| n.is_none()), 0 for None
RECURSIVE FirstAvailable(_, _)
FirstAvailable(slots, i) ==
    IF i > Len(slots) THEN 0
    ELSE IF slots[i] = << >> THEN i
    ELSE FirstAvailable(slots, i + 1)

\* position(|n| n.as_ref().map(|n| n.peer_id == peer_id).unwrap_or(false))
RECURSIVE NeighbourPosition(_, _, _)
NeighbourPosition(slots, peer_id, i) ==
    IF i > Len(slots) THEN 0
    ELSE IF slots[i] # << >> /\ slots[i][1].peer_id = peer_id THEN i
    ELSE NeighbourPosition(slots, peer_id, i + 1)

\* Peer::add_neighbour
AddNeighbour(peer_id) ==
    /\ strict_last.op = "none"
    /\ LET index == FirstAvailable(neighbours, 1)
       IN  /\ neighbours' =
                IF index # 0
                THEN [neighbours EXCEPT ![index] = <<NeighbourNew(peer_id)>>]
                ELSE neighbours
           /\ strict_ret' = IF index # 0 THEN "Ok" ELSE "MaxNeighboursReached"
    /\ UNCHANGED <<cached_neighbour_opinion, strict_local_opinion, strict_last,
                   ivpVars, peerVars, codecVars, timeVars>>

\* Peer::remove_neighbour
RemoveNeighbour(peer_id) ==
    /\ strict_last.op = "none"
    /\ LET index == NeighbourPosition(neighbours, peer_id, 1)
       IN  /\ neighbours' =
                IF index # 0 THEN [neighbours EXCEPT ![index] = << >>] ELSE neighbours
           /\ strict_ret' = IF index # 0 THEN "Ok" ELSE "NeighbourNotFound"
    /\ UNCHANGED <<cached_neighbour_opinion, strict_local_opinion, strict_last,
                   ivpVars, peerVars, codecVars, timeVars>>

\* Neighbour::rate: `self.score += 1` is a u32 addition
rate(score, rating, mode) ==
    IF rating = "Positive" THEN U32Sum(BigAdd(score, <<1>>), mode)
    ELSE IF score # << >> THEN [panic |-> FALSE, value |-> BigSub(score, <<1>>)]
    ELSE [panic |-> FALSE, value |-> score]

\* the ratings the model follows: within MaxRating of 0 or of u32::MAX
U32Max == BigSub(U32Modulus, <<1>>)

InRange(score) ==
    \/ BigCmp(score, NatToBig(MaxRating)) <= 0
    \/ BigCmp(score, BigSub(U32Max, NatToBig(MaxRating))) >= 0

\* Peer::rate_neighbour; an overflow panic of a debug build ends the run
RateNeighbour(peer_id, rating, mode) ==
    /\ strict_last.op = "none"
    /\ LET index == NeighbourPosition(neighbours, peer_id, 1)
           rated == rate(neighbours[index][1].score, rating, mode)
       IN  IF index = 0
           THEN /\ strict_ret' = "NeighbourNotFound"
                /\ UNCHANGED <<neighbours, strict_last>>
           ELSE IF rated.panic
           THEN /\ strict_ret' = "panic"
                /\ strict_last' = [NoCall EXCEPT !.op = "rate_neighbour",
                                                 !.mode = mode, !.result = "panic"]
                /\ UNCHANGED neighbours
           ELSE /\ InRange(rated.value)
                /\ neighbours' = [neighbours EXCEPT ![index] =
                                     <<[peer_id |-> peer_id, score |-> rated.value]>>]
                /\ strict_ret' = "Ok"
                /\ UNCHANGED strict_last
    /\ UNCHANGED <<cached_neighbour_opinion, strict_local_opinion, ivpVars, peerVars, codecVars, timeVars>>

\* rate_neighbour(peer_id, Positive) called n times in a row by the caller:
\* n additions of 1, each wrapping or panicking as one addition of n does
RateTimes(score, n, mode) == U32Sum(BigAdd(score, n), mode)

RateRuns == {BigSub(U32Max, <<1>>)}

RateNeighbourRepeatedly(peer_id, n, mode) ==
    /\ strict_last.op = "none"
    /\ LET index == NeighbourPosition(neighbours, peer_id, 1)
           rated == RateTimes(neighbours[index][1].score, n, mode)
       IN  /\ index # 0
           /\ IF rated.panic
              THEN /\ strict_ret' = "panic"
                   /\ strict_last' = [NoCall EXCEPT !.op = "rate_neighbour",
                                                    !.mode = mode, !.result = "panic"]
                   /\ UNCHANGED neighbours
              ELSE /\ InRange(rated.value)
                   /\ neighbours' = [neighbours EXCEPT ![index] =
                                        <<[peer_id |-> peer_id, score |-> rated.value]>>]
                   /\ strict_ret' = "Ok"
                   /\ UNCHANGED strict_last
    /\ UNCHANGED <<cached_neighbour_opinion, strict_local_opinion, ivpVars, peerVars, codecVars, timeVars>>

\* Peer::cache_neighbour_opinion
CacheNeighbourOpinion(key, response) ==
    /\ strict_last.op = "none"
    /\ cached_neighbour_opinion' = MapInsert(cached_neighbour_opinion, key, response)
    /\ strict_ret' = "Ok"
    /\ UNCHANGED <<neighbours, strict_local_opinion, strict_last, ivpVars, peerVars, codecVars, timeVars>>

\* Peer::cache_local_opinion of the strict peer
StrictCacheLocalOpinion(key, response) ==
    /\ strict_last.op = "none"
    /\ strict_local_opinion' = MapInsert(strict_local_opinion, key, response)
    /\ strict_ret' = "Ok"
    /\ UNCHANGED <<neighbours, cached_neighbour_opinion, strict_last, ivpVars, peerVars, codecVars, timeVars>>

\* Peer::get_local_opinion of the strict peer: Ok(opinion), or
\* Err(OpinionNotFound) as << >>
strict_get_local_opinion(key) ==
    IF key \in DOMAIN strict_local_opinion
    THEN <<strict_local_opinion[key]>> ELSE << >>

\* Peer::get_neighbour_opinion: Ok(opinion), or Err(OpinionNotFound) as << >>
get_neighbour_opinion(key) ==
    IF key \in DOMAIN cached_neighbour_opinion
    THEN <<cached_neighbour_opinion[key]>> ELSE << >>

\* iter_neighbours: the occupied slots in order
RECURSIVE IterNeighbours(_, _)
IterNeighbours(slots, i) ==
    IF i > Len(slots) THEN << >>
    ELSE slots[i] \o IterNeighbours(slots, i + 1)

\* the first loop of calculate_local_opinions: stops at the first neighbour
\* without a cached opinion, or at the first u32 overflow of a debug build
RECURSIVE FirstPass(_, _, _, _, _, _)
FirstPass(ns, k, mode, i, global_score, sum_of_scores) ==
    IF i > Len(ns)
    THEN [status |-> "Ok", global_score |-> global_score,
          sum_of_scores |-> sum_of_scores]
    ELSE LET opinion == get_neighbour_opinion(<<ns[i].peer_id, k>>)
             sum == U32Sum(BigAdd(sum_of_scores, ns[i].score), mode)
         IN  IF opinion = << >>
             THEN [status |-> "OpinionNotFound", global_score |-> global_score,
                   sum_of_scores |-> sum_of_scores]
             ELSE IF sum.panic
             THEN [status |-> "panic", global_score |-> global_score,
                   sum_of_scores |-> sum_of_scores]
             ELSE FirstPass(ns, k, mode, i + 1,
                            F64Add(global_score, opinion[1].product), sum.value)

\* Neighbour::get_normalized_score
NeighbourNormalizedScore(n, sum) == F64Div(F64FromBig(n.score), F64FromBig(sum))

\* the second loop and the caching loop of calculate_local_opinions
RECURSIVE StrictCacheAll(_, _, _, _, _, _)
StrictCacheAll(cache, ns, k, global_score, sum_of_scores, i) ==
    IF i > Len(ns) THEN cache
    ELSE LET normalized_score == NeighbourNormalizedScore(ns[i], sum_of_scores)
             opinion == OpinionNew(EpochNext(k), normalized_score, global_score,
                                   F64Mul(global_score, normalized_score))
         IN  StrictCacheAll(MapInsert(cache, <<ns[i].peer_id, opinion.k>>, opinion),
                            ns, k, global_score, sum_of_scores, i + 1)

\* a calculate_local_opinions that caches its opinions even when the first
\* loop ended with an error
StrictCalculateLocalOpinionsWriting(k, mode) ==
    /\ strict_last.op = "none"
    /\ LET ns == IterNeighbours(neighbours, 1)
           first == FirstPass(ns, k, mode, 1, F64Zero(0), << >>)
       IN  /\ strict_local_opinion' =
                StrictCacheAll(strict_local_opinion, ns, k, first.global_score,
                               first.sum_of_scores, 1)
           /\ strict_last' = [op |-> "calculate_local_opinions", epoch |-> k,
                              mode |-> mode, global_score |-> first.global_score,
                              result |-> first.status]
           /\ strict_ret' = first.status
    /\ UNCHANGED <<neighbours, cached_neighbour_opinion, ivpVars, peerVars, codecVars, timeVars>>

\* Peer::calculate_local_opinions of the strict peer
StrictCalculateLocalOpinions(k, mode) ==
    /\ strict_last.op = "none"
    /\ LET ns == IterNeighbours(neighbours, 1)
           first == FirstPass(ns, k, mode, 1, F64Zero(0), << >>)
       IN  /\ strict_local_opinion' =
                IF first.status # "Ok" THEN strict_local_opinion
                ELSE StrictCacheAll(strict_local_opinion, ns, k, first.global_score,
                                    first.sum_of_scores, 1)
           /\ strict_last' = [op |-> "calculate_local_opinions", epoch |-> k,
                              mode |-> mode, global_score |-> first.global_score,
                              result |-> first.status]
           /\ strict_ret' = first.status
    /\ UNCHANGED <<neighbours, cached_neighbour_opinion, ivpVars, peerVars, codecVars, timeVars>>

(***************************************************************************)
(* Public-input codec (eigentrust/src/circuit.rs).  A Scalar is the        *)
(* natural number below the field modulus that it stands for, a byte       *)
(* buffer is a sequence of numbers in 0..255, and an absent value is the   *)
(* empty sequence.                                                         *)
(***************************************************************************)
SCALAR_LEN == 32
MaxParticipants == 2

\* the modulus of bn256::Fr,
\* 0x30644e72e131a029b85045b68181585d2833e84879b9709143e1f593f0000001
FrModulus ==
    <<1, 24576, 22095, 7951, 2324, 14126, 4638, 6644, 23848, 688, 23046,
      557, 7045, 13317, 14412, 10041, 12388>>

FrOne == <<1>>
FrMax == BigSub(FrModulus, <<1>>)
UsizeModulus == BigShl(<<1>>, 64)

\* the number made of the n bits of a from bit `from` on (1 = least significant)
RECURSIVE BigBits(_, _, _)
BigBits(a, from, n) ==
    IF n = 0 THEN 0 ELSE BigBit(a, from) + 2 * BigBits(a, from + 1, n - 1)

\* a scalar written most significant byte first
ScalarToBytesBigEndian(s) ==
    [i \in 1..SCALAR_LEN |-> BigBits(s, 8 * (SCALAR_LEN - i) + 1, 8)]

\* Fr::to_bytes: the canonical value, least significant byte first
ScalarToBytes(s) ==
    [i \in 1..SCALAR_LEN |-> BigBits(s, 8 * (i - 1) + 1, 8)]

\* bit n (1 = least significant) of a little-endian chunk of bytes
ByteBit(chunk, n) ==
    IF n > 8 * Len(chunk) THEN 0
    ELSE (chunk[(n - 1) \div 8 + 1] \div (2 ^ ((n - 1) % 8))) % 2

RECURSIVE ChunkBits(_, _, _)
ChunkBits(chunk, from, n) ==
    IF n = 0 THEN 0 ELSE ByteBit(chunk, from) + 2 * ChunkBits(chunk, from + 1, n - 1)

\* the number a chunk of bytes writes, least significant byte first
ChunkValue(chunk) ==
    BigNorm([k \in 1..((8 * Len(chunk)) \div LimbBits + 1) |->
                ChunkBits(chunk, LimbBits * (k - 1) + 1, LimbBits)])

\* a decoding that reduces the chunk's number modulo the field modulus
ScalarFromBytesReducing(chunk) ==
    <<BigDivMod(ChunkValue(chunk), FrModulus)[2]>>

\* Fr::from_bytes: none unless the chunk's number is below the modulus
ScalarFromBytes(chunk) ==
    LET value == ChunkValue(chunk)
    IN  IF BigCmp(value, FrModulus) < 0 THEN <<value>> ELSE << >>

\* ETPublicInputs::new
ETPublicInputsNew(participants, scores, domain, opinion_hash) ==
    [participants |-> participants, scores |-> scores,
     domain |-> domain, opinion_hash |-> opinion_hash]

RECURSIVE ScalarsToBytes(_, _)
ScalarsToBytes(scalars, i) ==
    IF i > Len(scalars) THEN << >>
    ELSE ScalarToBytes(scalars[i]) \o ScalarsToBytes(scalars, i + 1)

\* ETPublicInputs::to_vec
to_vec(x) == x.participants \o x.scores \o <<x.domain, x.opinion_hash>>

\* ETPublicInputs::to_bytes
to_bytes(x) ==
    ScalarsToBytes(x.participants, 1) \o ScalarsToBytes(x.scores, 1)
        \o ScalarToBytes(x.domain) \o ScalarToBytes(x.opinion_hash)

\* (2 * participants + 2) * SCALAR_LEN in usize: the partial results grow,
\* so one of them overflows iff the last one does not fit
ExpectedLen(participants, mode) ==
    LET total == BigMulSmall(BigAdd(BigMulSmall(participants, 2), <<2>>),
                             SCALAR_LEN)
    IN  IF BigCmp(total, UsizeModulus) < 0
        THEN [panic |-> FALSE, value |-> total]
        ELSE IF mode = "debug" THEN [panic |-> TRUE, value |-> << >>]
        ELSE [panic |-> FALSE, value |-> BigLowBits(total, 64)]

\* ETPublicInputs::get_scalar_at: slicing past the end of the buffer panics
get_scalar_at(buffer, index) ==
    LET start == index * SCALAR_LEN
    IN  IF start + SCALAR_LEN > Len(buffer)
        THEN [status |-> "panic", scalar |-> << >>]
        ELSE LET scalar_opt ==
                     ScalarFromBytes(SubSeq(buffer, start + 1, start + SCALAR_LEN))
             IN  IF scalar_opt # << >>
                 THEN [status |-> "Ok", scalar |-> scalar_opt[1]]
                 ELSE [status |-> "ParsingError", scalar |-> << >>]

\* (i..to).map(|i| get_scalar_at(&bytes, i)).collect::<Result<Vec<_>, _>>():
\* the scalars of the chunks i..to-1, up to the first chunk that fails
RECURSIVE Collect(_, _, _, _)
Collect(buffer, i, to, acc) ==
    IF acc.status # "Ok" \/ i >= to THEN acc
    ELSE LET got == get_scalar_at(buffer, i)
         IN  Collect(buffer, i + 1, to,
                     [status |-> got.status,
                      scalars |-> IF got.status = "Ok"
                                  THEN Append(acc.scalars, got.scalar)
                                  ELSE << >>,
                      reads |-> acc.reads + 1])

NoParse ==
    [op |-> "none", participants |-> << >>, mode |-> "debug",
     status |-> "none", value |-> << >>, reads |-> 0]

\* ETPublicInputs::from_bytes.  A participant count beyond the buffer's
\* chunks walks the chunks up to the first one past the end, where
\* get_scalar_at panics.
from_bytes(buffer, participants, mode) ==
    LET call == [NoParse EXCEPT !.op = "from_bytes",
                                !.participants = participants, !.mode = mode]
        expected == ExpectedLen(participants, mode)
        chunks == Len(buffer) \div SCALAR_LEN
        p == IF BigCmp(participants, NatToBig(chunks)) <= 0
             THEN BigToNat(participants) ELSE chunks + 1
        participants_vec ==
            Collect(buffer, 0, p, [status |-> "Ok", scalars |-> << >>, reads |-> 0])
        scores_vec ==
            Collect(buffer, p, 2 * p, [participants_vec EXCEPT !.scalars = << >>])
        tail == Collect(buffer, 2 * p, 2 * p + 2,
                        [scores_vec EXCEPT !.scalars = << >>])
    IN  IF expected.panic THEN [call EXCEPT !.status = "panic"]
        ELSE IF NatToBig(Len(buffer)) # expected.value
        THEN [call EXCEPT !.status = "ParsingError"]
        ELSE IF tail.status # "Ok"
        THEN [call EXCEPT !.status = tail.status, !.reads = tail.reads]
        ELSE [call EXCEPT !.status = "Ok", !.reads = tail.reads,
                          !.value = <<ETPublicInputsNew(participants_vec.scalars,
                                                        scores_vec.scalars,
                                                        tail.scalars[1],
                                                        tail.scalars[2])>>]

\* inputs: scalars as the tests draw them (two distinct ones), vectors that
\* alternate between them, chunks that are no canonical encoding, and
\* participant counts up to those that overflow the expected length
Scalars == {FrOne, FrMax}
OtherScalar(s) == IF s = FrOne THEN FrMax ELSE FrOne
ScalarVec(n, first) ==
    [i \in 1..n |-> IF i % 2 = 1 THEN first ELSE OtherScalar(first)]
InvalidChunks == {ScalarToBytes(FrModulus), [i \in 1..SCALAR_LEN |-> 255]}
Counts ==
    {NatToBig(n) : n \in 0..(MaxParticipants + 1)}
        \cup {BigShl(<<1>>, 63), BigSub(BigShl(<<1>>, 58), <<1>>)}

\* ETPublicInputs::new, once in a run
New(participants, scores, domain, opinion_hash) ==
    /\ inputs = << >>
    /\ bytes = << >>
    /\ inputs' = <<ETPublicInputsNew(participants, scores, domain, opinion_hash)>>
    /\ parsed' = NoParse
    /\ UNCHANGED <<bytes, ivpVars, peerVars, strictVars, timeVars>>

\* let bytes = inputs.to_bytes()
ToBytes ==
    /\ parsed = NoParse
    /\ inputs # << >>
    /\ bytes' = to_bytes(inputs[1])
    /\ parsed' = NoParse
    /\ UNCHANGED <<inputs, ivpVars, peerVars, strictVars, timeVars>>

\* bytes.pop() on a serialized value (tests::test_invalid_byte_length)
Pop ==
    /\ parsed = NoParse
    /\ inputs # << >>
    /\ bytes = to_bytes(inputs[1])
    /\ bytes' = SubSeq(bytes, 1, Len(bytes) - 1)
    /\ parsed' = NoParse
    /\ UNCHANGED <<inputs, ivpVars, peerVars, strictVars, timeVars>>

\* vec![0u8; len] (tests::test_invalid_scalar_byte_construction)
Zeroed(len) ==
    /\ inputs = << >>
    /\ bytes = << >>
    /\ bytes' = [i \in 1..len |-> 0]
    /\ parsed' = NoParse
    /\ UNCHANGED <<inputs, ivpVars, peerVars, strictVars, timeVars>>

\* a serialized value one of whose chunks is replaced on the way
Overwrite(index, chunk) ==
    /\ parsed = NoParse
    /\ inputs # << >>
    /\ bytes = to_bytes(inputs[1])
    /\ index < Len(bytes) \div SCALAR_LEN
    /\ bytes' = [i \in 1..Len(bytes) |->
                    IF i > index * SCALAR_LEN /\ i <= (index + 1) * SCALAR_LEN
                    THEN chunk[i - index * SCALAR_LEN] ELSE bytes[i]]
    /\ parsed' = NoParse
    /\ UNCHANGED <<inputs, ivpVars, peerVars, strictVars, timeVars>>

\* ETPublicInputs::from_bytes(bytes, participants), which ends the run
FromBytes(participants, mode) ==
    /\ parsed = NoParse
    /\ parsed' = from_bytes(bytes, participants, mode)
    /\ UNCHANGED <<inputs, bytes, ivpVars, peerVars, strictVars, timeVars>>

(***************************************************************************)
(* Scheduler (protocol/src/utils.rs, create_iter).  Instants and durations *)
(* are numbers of clock units; a unit is longer than the 5 ms tolerance by  *)
(* which tokio tells a late tick from a tick on time.                      *)
(***************************************************************************)
MaxLead == 2
MaxStall == 2
MaxTicks == 3

NoStream ==
    [status |-> "none", start |-> << >>, period |-> << >>, num |-> << >>,
     deadline |-> << >>, count |-> << >>, remaining |-> << >>]

NoPoll == [result |-> "none", index |-> << >>, at |-> << >>, boundary |-> << >>]

\* the deadline after a missed tick if every missed tick were to fire
next_timeout_burst(timeout, now, period) == BigAdd(timeout, period)

\* Interval::tick with MissedTickBehavior::Skip: after a tick on time the next
\* deadline is one period later; after a late one it is the next multiple
\* of the period from the start that lies after now
next_timeout(timeout, now, period) ==
    IF BigCmp(now, timeout) > 0
    THEN BigSub(BigAdd(now, period),
                BigDivMod(BigSub(now, timeout), period)[2])
    ELSE BigAdd(timeout, period)

\* create_iter(start, interval, num); time::interval_at panics on a zero period
CreateIter(start, interval, num) ==
    /\ stream.status = "none"
    /\ stream' = IF interval = << >>
                 THEN [NoStream EXCEPT !.status = "panic"]
                 ELSE [status |-> "live", start |-> start, period |-> interval,
                       num |-> num, deadline |-> start, count |-> << >>,
                       remaining |-> num]
    /\ UNCHANGED <<clock, polled, epochVars, ivpVars, peerVars, strictVars, codecVars>>

\* time passes; the model follows a stream up to MaxStall periods past its deadline
Advance ==
    /\ \/ stream.status = "none" /\ BigCmp(clock, NatToBig(MaxLead)) < 0
       \/ /\ stream.status = "live"
          /\ BigCmp(clock, BigAdd(stream.deadline,
                                  BigMulSmall(stream.period, MaxStall))) < 0
    /\ clock' = BigAdd(clock, <<1>>)
    /\ UNCHANGED <<stream, polled, epochVars, ivpVars, peerVars, strictVars, codecVars>>

\* the counts the model follows: within MaxTicks of 0 or of u32::MAX
CountInRange(count) ==
    \/ BigCmp(count, NatToBig(MaxTicks)) < 0
    \/ BigCmp(BigAdd(count, NatToBig(MaxTicks)), U32Max) >= 0

\* stream.next(): Fuse(Take(Unfold)).  A finished stream keeps returning
\* None; take(num) returns None after num items; else interval.tick() is
\* awaited and the closure yields count and keeps count + 1 (a u32)
Poll(mode) ==
    /\ stream.status \in {"live", "done"}
    /\ UNCHANGED <<clock, epochVars, ivpVars, peerVars, strictVars, codecVars>>
    /\ IF stream.status = "done" \/ stream.remaining = << >>
       THEN /\ stream' = [stream EXCEPT !.status = "done"]
            /\ polled' = [NoPoll EXCEPT !.result = "None", !.at = clock]
       ELSE IF BigCmp(clock, stream.deadline) < 0
       THEN /\ stream' = stream
            /\ polled' = [NoPoll EXCEPT !.result = "Pending", !.at = clock]
       ELSE LET next == U32Sum(BigAdd(stream.count, <<1>>), mode)
            IN  /\ CountInRange(stream.count)
                /\ IF next.panic
                   THEN /\ stream' = [stream EXCEPT !.status = "panic"]
                        /\ polled' = [NoPoll EXCEPT !.result = "panic", !.at = clock]
                   ELSE /\ stream' =
                              [stream EXCEPT
                                 !.deadline = next_timeout(stream.deadline, clock,
                                                           stream.period),
                                 !.count = next.value,
                                 !.remaining = BigSub(stream.remaining, <<1>>)]
                        /\ polled' = [result |-> "Some", index |-> stream.count,
                                      at |-> clock, boundary |-> stream.deadline]

\* n polls in a row, each at its deadline, none of which overflows the count
PollRepeatedly(n) ==
    /\ stream.status = "live"
    /\ clock = stream.deadline
    /\ BigCmp(n, stream.remaining) <= 0
    /\ BigCmp(BigAdd(stream.count, n), U32Max) <= 0
    /\ LET last_boundary ==
               BigAdd(stream.deadline, BigMul(BigSub(n, <<1>>), stream.period))
       IN  /\ clock' = last_boundary
           /\ stream' = [stream EXCEPT
                            !.deadline = BigAdd(last_boundary, stream.period),
                            !.count = BigAdd(stream.count, n),
                            !.remaining = BigSub(stream.remaining, n)]
           /\ polled' = [result |-> "Some",
                         index |-> BigSub(BigAdd(stream.count, n), <<1>>),
                         at |-> last_boundary, boundary |-> last_boundary]
    /\ UNCHANGED <<epochVars, ivpVars, peerVars, strictVars, codecVars>>

(***************************************************************************)
(* Epoch (src/epoch.rs).  The wall clock is a number of seconds from       *)
(* UNIX_EPOCH, negative before it; the system may set it to any value.     *)
(***************************************************************************)
MaxWall == 5
MaxInterval == 3

NoEpochCall ==
    [op |-> "none", interval |-> 0, at |-> 0, status |-> "none", value |-> 0]

\* SystemTime::now().duration_since(UNIX_EPOCH).map_err(|_| EpochError)?.as_secs()
unix_timestamp == IF wall < 0 THEN << >> ELSE <<wall>>

\* Epoch::current_epoch: u64 division, which panics on a zero divisor
current_epoch(interval) ==
    LET call == [NoEpochCall EXCEPT !.op = "current_epoch",
                                    !.interval = interval, !.at = wall]
    IN  IF unix_timestamp = << >> THEN [call EXCEPT !.status = "EpochError"]
        ELSE IF interval = 0 THEN [call EXCEPT !.status = "panic"]
        ELSE [call EXCEPT !.status = "Ok",
                          !.value = unix_timestamp[1] \div interval]

\* Epoch::secs_until_next_epoch
secs_until_next_epoch(interval) ==
    LET call == [NoEpochCall EXCEPT !.op = "secs_until_next_epoch",
                                    !.interval = interval, !.at = wall]
    IN  IF unix_timestamp = << >> THEN [call EXCEPT !.status = "EpochError"]
        ELSE IF interval = 0 THEN [call EXCEPT !.status = "panic"]
        ELSE LET epoch == unix_timestamp[1] \div interval
             IN  [call EXCEPT !.status = "Ok",
                              !.value = (epoch + 1) * interval - unix_timestamp[1]]

\* a second passes
WallTick ==
    /\ wall < MaxWall
    /\ wall' = wall + 1
    /\ UNCHANGED <<epoch_ret, schedVars, ivpVars, peerVars, strictVars, codecVars>>

\* the system clock is set, possibly to before the reference
WallSet(t) ==
    /\ wall' = t
    /\ UNCHANGED <<epoch_ret, schedVars, ivpVars, peerVars, strictVars, codecVars>>

CurrentEpoch(interval) ==
    /\ epoch_ret' = current_epoch(interval)
    /\ UNCHANGED <<wall, schedVars, ivpVars, peerVars, strictVars, codecVars>>

SecsUntilNextEpoch(interval) ==
    /\ epoch_ret' = secs_until_next_epoch(interval)
    /\ UNCHANGED <<wall, schedVars, ivpVars, peerVars, strictVars, codecVars>>

(***************************************************************************)
(* Specifications: one per component; the other components stay as built.  *)
(***************************************************************************)
IvpInit == pc = "idle" /\ msg = << >> /\ gen = NoGen /\ ver = NoVer

PeerInit ==
    /\ neighbors = [i \in 1..NumNeighbors |-> None]
    /\ neighbor_scores = EmptyMap
    /\ cached_neighbor_opinion = EmptyMap
    /\ cached_local_opinion = EmptyMap
    /\ last = NoCall
    /\ ret = "none"

StrictInit ==
    /\ neighbours = [i \in 1..NumNeighbors |-> << >>]
    /\ cached_neighbour_opinion = EmptyMap
    /\ strict_local_opinion = EmptyMap
    /\ strict_last = NoCall
    /\ strict_ret = "none"

CodecInit == inputs = << >> /\ bytes = << >> /\ parsed = NoParse

SchedInit == clock = << >> /\ stream = NoStream /\ polled = NoPoll

EpochInit == wall = 0 /\ epoch_ret = NoEpochCall

Init ==
    IvpInit /\ PeerInit /\ StrictInit /\ CodecInit /\ SchedInit /\ EpochInit

NextIVP ==
    \/ \E sk \in Issuers, pk_v \in Targets, epoch \in Epochs, k \in Iters,
          op_ji \in [1..MAX_NEIGHBORS -> OpInputs], c_v \in CvInputs :
         Generate(sk, pk_v, epoch, k, op_ji, c_v)
    \/ Tamper
    \/ Rebuild
    \/ \E sk_p \in Verifiers, pubkey_p \in ClaimedIssuers : Verify(sk_p, pubkey_p)

SpecIVP == Init /\ [][NextIVP]_vars

NextPeer ==
    \/ \E peer_id \in PeerIds : AddNeighbor(peer_id)
    \/ \E peer_id \in PeerIds : RemoveNeighbor(peer_id)
    \/ \E peer_id \in PeerIds, score \in Scores : SetScore(peer_id, score)
    \/ \E peer_id \in PeerIds, k \in ReceivedEpochs :
         CacheNeighborOpinion(<<peer_id, k>>, ReceivedOpinion(k))
    \/ \E peer_id \in StalePeers, k \in StaleEpochs :
         CacheLocalOpinion(<<peer_id, k>>, StaleOpinion(k))
    \/ \E k \in CalcEpochs, mode \in BuildModes : CalculateLocalOpinions(k, mode)

SpecPeer == Init /\ [][NextPeer]_vars

NextStrict ==
    \/ \E peer_id \in PeerIds : AddNeighbour(peer_id)
    \/ \E peer_id \in PeerIds : RemoveNeighbour(peer_id)
    \/ \E peer_id \in PeerIds, rating \in {"Positive", "Negative"}, mode \in BuildModes :
         RateNeighbour(peer_id, rating, mode)
    \/ \E peer_id \in PeerIds, n \in RateRuns, mode \in BuildModes :
         RateNeighbourRepeatedly(peer_id, n, mode)
    \/ \E peer_id \in StalePeers, k \in StaleEpochs :
         StrictCacheLocalOpinion(<<peer_id, k>>, StaleOpinion(k))
    \/ \E peer_id \in PeerIds, k \in ReceivedEpochs :
         CacheNeighbourOpinion(<<peer_id, k>>, ReceivedOpinion(k))
    \/ \E k \in CalcEpochs, mode \in BuildModes : StrictCalculateLocalOpinions(k, mode)

SpecStrict == Init /\ [][NextStrict]_vars

\* the calls of both peers that can return an error, with the writes that
\* fill the strict peer's caches
NextErrors ==
    \/ \E peer_id \in PeerIds : AddNeighbor(peer_id)
    \/ \E peer_id \in PeerIds : AddNeighbour(peer_id)
    \/ \E peer_id \in PeerIds : RemoveNeighbour(peer_id)
    \/ \E peer_id \in StalePeers, rating \in {"Positive", "Negative"} :
         RateNeighbour(peer_id, rating, "release")
    \/ \E peer_id \in StalePeers, k \in StaleEpochs :
         StrictCacheLocalOpinion(<<peer_id, k>>, StaleOpinion(k))
    \/ \E peer_id \in StalePeers, k \in ReceivedEpochs :
         CacheNeighbourOpinion(<<peer_id, k>>, ReceivedOpinion(k))
    \/ \E k \in ReceivedEpochs, mode \in BuildModes :
         StrictCalculateLocalOpinions(k, mode)

SpecErrors == Init /\ [][NextErrors]_vars

\* the opinion caches of both peers, written side by side
NextCaches ==
    \/ \E peer_id \in PeerIds, k \in ReceivedEpochs :
         CacheNeighborOpinion(<<peer_id, k>>, ReceivedOpinion(k))
    \/ \E peer_id \in StalePeers, k \in StaleEpochs :
         CacheLocalOpinion(<<peer_id, k>>, StaleOpinion(k))
    \/ \E peer_id \in PeerIds, k \in ReceivedEpochs :
         CacheNeighbourOpinion(<<peer_id, k>>, ReceivedOpinion(k))
    \/ \E peer_id \in StalePeers, k \in StaleEpochs :
         StrictCacheLocalOpinion(<<peer_id, k>>, StaleOpinion(k))

SpecCaches == Init /\ [][NextCaches]_vars

NextCodec ==
    \/ \E n \in 0..MaxParticipants, m \in 0..MaxParticipants :
         \E first \in Scalars, score \in Scalars, domain \in Scalars :
            New(ScalarVec(n, first), ScalarVec(m, score), domain, OtherScalar(domain))
    \/ ToBytes
    \/ Pop
    \/ \E p \in 0..MaxParticipants : Zeroed((2 * p + 2) * SCALAR_LEN)
    \/ \E index \in 0..(2 * MaxParticipants + 1), chunk \in InvalidChunks :
         Overwrite(index, chunk)
    \/ \E participants \in Counts, mode \in BuildModes :
         FromBytes(participants, mode)

SpecCodec == Init /\ [][NextCodec]_vars

NextSched ==
    \/ \E start \in 0..MaxLead, interval \in 0..MaxStall :
         \E num \in {NatToBig(n) : n \in 0..MaxTicks}
                       \cup {U32Modulus, BigAdd(U32Modulus, <<1>>)} :
            CreateIter(NatToBig(start), NatToBig(interval), num)
    \/ Advance
    \/ \E mode \in BuildModes : Poll(mode)
    \/ PollRepeatedly(BigSub(U32Max, <<1>>))

SpecSched == Init /\ [][NextSched]_vars

NextEpoch ==
    \/ WallTick
    \/ \E t \in -1..MaxWall : WallSet(t)
    \/ \E interval \in 0..MaxInterval : CurrentEpoch(interval)
    \/ \E interval \in 0..MaxInterval : SecsUntilNextEpoch(interval)

SpecEpoch == Init /\ [][NextEpoch]_vars

(***************************************************************************)
(* Properties of IVP::generate and IVP::verify (checked under SpecIVP)     *)
(***************************************************************************)
\* the verifier has answered for the message generate returned, unmodified,
\* as the target peer and against the issuer's commitment
HonestRun ==
    /\ ver.result # "none"
    /\ gen.result = "Ok"
    /\ msg = gen.out
    /\ ver.pk_v = gen.pk_v
    /\ ver.pubkey_p = gen.pk_p

\* C1: honest round trip: the target peer verifying the unmodified message
\* against the issuer's commitment gets Ok(true), and the value it recovers,
\* round(m.op * SCALE^2), is the issuer's op_v_scaled, so the recomputed hash
\* is the m_hash the proof was made for.
C1_HonestRoundTrip ==
    HonestRun =>
        /\ ver.result = "Ok(true)"
        /\ ver.op_v_scaled = gen.op_v_scaled
        /\ ver.m_hash = gen.m_hash

\* C2: the commitment binds a message to its context: whenever verify
\* returns Ok(true), the proof bytes are a proof for the public input
\* permute([epoch, iter, round(op*SCALE^2), pk_v, pubkey_p])[0] of the
\* verifier's own context, a zero opinion included.
C2_CommitmentBindsContext ==
    ver.result = "Ok(true)" =>
        msg[1].proof_bytes =
            ValidProof(m_hash_of(msg[1].epoch, msg[1].iter, RecoverScaled(msg[1].op),
                                 ver.pk_v, ver.pubkey_p))

\* C3: the public input handed to the external verifier is the carried
\* m_hash exactly when round(op * SCALE^2) is zero and the recomputed hash
\* otherwise, so a non-zero opinion's result never depends on the carried
\* m_hash.
C3_PublicInputSelection ==
    ver.result # "none" =>
        LET zero == RecoverScaled(msg[1].op) = << >>
            recomputed == m_hash_of(msg[1].epoch, msg[1].iter, RecoverScaled(msg[1].op),
                                    ver.pk_v, ver.pubkey_p)
            answer == verify(recomputed, msg[1].proof_bytes)
        IN  /\ ver.called =>
                 ver.pub_in = IF zero THEN FrFromBytes(msg[1].m_hash).value
                              ELSE recomputed
            /\ ~zero =>
                 ver.result = (IF answer = "err" THEN "VerificationError"
                               ELSE IF answer = "true" THEN "Ok(true)"
                               ELSE "Ok(false)")

\* the sum of round(op_ji[j] * SCALE) over the incoming opinions
RECURSIVE SumOfScaledOpinions(_, _)
SumOfScaledOpinions(op_ji, n) ==
    IF n = 0 THEN << >>
    ELSE BigAdd(SumOfScaledOpinions(op_ji, n - 1),
                F64AsU128(F64RoundF(F64Mul(op_ji[n], SCALE_F))))

\* C4: bootstrap override: t_i_final is the scaled bootstrap score exactly
\* when pk_p is a bootstrap key and k = 0, and the sum of the scaled incoming
\* opinions in every other case; a returned message has
\* op = (t_i_final * round(c_v * SCALE)) / SCALE^2, iter = k, epoch = epoch.
C4_BootstrapOverride ==
    gen.result # "none" =>
        /\ gen.t_i_final =
             IF gen.pk_p \in bootstrap_pubkeys /\ gen.k = 0
             THEN F64AsU128(F64RoundF(F64Mul(BOOTSTRAP_SCORE, SCALE_F)))
             ELSE SumOfScaledOpinions(gen.op_ji, Len(gen.op_ji))
        /\ gen.result = "Ok" =>
             /\ gen.out[1].op =
                  F64Div(F64FromBig(BigMul(gen.t_i_final,
                                           F64AsU128(F64RoundF(F64Mul(gen.c_v, SCALE_F))))),
                         F64Mul(SCALE_F, SCALE_F))
             /\ gen.out[1].iter = gen.k
             /\ gen.out[1].epoch = gen.epoch

\* a bootstrap issuer's first iteration returned a message, and the override
\* replaced a different sum
C4_Witness ==
    /\ gen.result = "Ok"
    /\ gen.pk_p \in bootstrap_pubkeys
    /\ gen.k = 0
    /\ gen.t_i_final # SumOfScaledOpinions(gen.op_ji, Len(gen.op_ji))
    /\ ~F64IsZero(gen.out[1].op)

\* C5: generate returns a message only after the verifier answered true for
\* (m_hash, proof_bytes); a prover failure is the error value ProvingError,
\* and a self-verification failure (backend error or answer false) is an
\* error value too, with no message returned.
C5_NoUnverifiedMessage ==
    /\ gen.result = "Ok" => gen.self_check = "true"
    /\ gen.prover = "err" => gen.result = "ProvingError" /\ gen.out = << >>
    /\ gen.self_check \in {"err", "false"} =>
         /\ gen.result \in {"ProvingError", "VerificationError"}
         /\ gen.out = << >>

\* C6: for every message, verify returns Ok(b) with b the external
\* verifier's answer, or Err(VerificationError) when the backend reports an
\* error; it never aborts.
C6_VerifyAlwaysReturns ==
    ver.result # "none" =>
        /\ ver.result # "panic"
        /\ ver.called
        /\ ver.answer = verify(ver.pub_in, msg[1].proof_bytes)
        /\ ver.result = (IF ver.answer = "err" THEN "VerificationError"
                         ELSE IF ver.answer = "true" THEN "Ok(true)"
                         ELSE "Ok(false)")

(***************************************************************************)
(* Properties of the Peer (checked under SpecPeer)                         *)
(***************************************************************************)
\* score / sum as get_normalized_score computes it in the build that ran
NormalizedRating(peer_id) == get_normalized_score(ScoreOf(peer_id), last.mode).value

\* C7: after calculate_local_opinions(E), for every current neighbor n the
\* local-opinion cache holds at (n, E.next()) an opinion with epoch E.next(),
\* local_trust_score == n's normalized score, global_trust_score == G and
\* product == G * normalized score, G being calculate_global_trust_score(E)
\* before the call.
C7_LocalOpinionsCached ==
    (last.op = "calculate_local_opinions" /\ last.result = "ok") =>
        \A i \in 1..Len(Neighbors) :
            LET n == Neighbors[i]
                key == <<n, EpochNext(last.epoch)>>
                G == last.global_score
            IN  /\ key \in DOMAIN cached_local_opinion
                /\ cached_local_opinion[key].k = EpochNext(last.epoch)
                /\ F64Eq(cached_local_opinion[key].local_trust_score,
                         NormalizedRating(n))
                /\ F64Eq(cached_local_opinion[key].global_trust_score, G)
                /\ F64Eq(cached_local_opinion[key].product,
                         F64Mul(G, NormalizedRating(n)))

\* the formula of calculate_global_trust_score: a neighbor with no cached
\* opinion for E adds 0, and with no cached opinion at all the score is
\* exactly pre_trust_weight * pre_trust_score
GlobalTrustScoreFormula ==
    \A E \in CalcEpochs :
        /\ calculate_global_trust_score(E) =
             F64Add(F64Mul(F64Sub(F64FromBig(<<1>>), pre_trust_weight),
                           SumProductsFrom(
                               SelectSeq(Neighbors,
                                         LAMBDA n : <<n, E>> \in DOMAIN cached_neighbor_opinion),
                               E, 1, F64Zero(0))),
                    F64Mul(pre_trust_weight, pre_trust_score))
        /\ (\A i \in 1..Len(Neighbors) :
                <<Neighbors[i], E>> \notin DOMAIN cached_neighbor_opinion) =>
              calculate_global_trust_score(E) = F64Mul(pre_trust_weight, pre_trust_score)

\* C8: a neighbor with no cached opinion for E contributes 0 and never
\* causes an error, so for a peer none of whose neighbors has a cached
\* opinion for E, calculate_local_opinions(E) succeeds (the strict peer,
\* under SpecStrict).
C8_MissingOpinionIsNoError ==
    LET ns == IterNeighbours(neighbours, 1)
    IN  (/\ strict_last.op = "calculate_local_opinions"
         /\ \A i \in 1..Len(ns) :
                <<ns[i].peer_id, strict_last.epoch>> \notin DOMAIN cached_neighbour_opinion)
        => /\ strict_last.result = "Ok"
           /\ F64IsZero(strict_last.global_score)

\* C9: with N >= 1 current neighbors each rated r, get_sum_of_scores() is
\* N * r without overflow or abort, and get_normalized_score(r) == 1/N.
C9_UniformRatings ==
    \A mode \in BuildModes :
        LET N == Len(Neighbors)
            r == ScoreOf(Neighbors[1])
        IN  (N >= 1 /\ \A i \in 1..N : ScoreOf(Neighbors[i]) = r) =>
                /\ ~get_sum_of_scores(mode).panic
                /\ get_sum_of_scores(mode).value = BigMulSmall(r, N)
                /\ F64Eq(get_normalized_score(r, mode).value,
                         F64Div(F64FromBig(<<1>>), F64FromBig(NatToBig(N))))

\* C10: when the ratings of the current neighbors sum to 0,
\* get_normalized_score returns 0, so calculate_local_opinions stores
\* local_trust_score == 0 and product == 0 for every neighbor.
C10_ZeroSumNormalizesToZero ==
    (/\ last.op = "calculate_local_opinions"
     /\ last.result = "ok"
     /\ SumScoresFrom(Neighbors, 1) = << >>) =>
        \A i \in 1..Len(Neighbors) :
            LET o == get_local_opinion(<<Neighbors[i], EpochNext(last.epoch)>>)
            IN  /\ F64Eq(NormalizedRating(Neighbors[i]), F64Zero(0))
                /\ F64Eq(o.local_trust_score, F64Zero(0))
                /\ F64Eq(o.product, F64Zero(0))

(***************************************************************************)
(* Properties of the neighbor table (the strict peer, under SpecStrict)    *)
(***************************************************************************)
\* the identities in the strict table, and its occupied slots
NeighbourIds ==
    {neighbours[i][1].peer_id : i \in {j \in 1..Len(neighbours) : neighbours[j] # << >>}}

OccupiedSlots == {j \in 1..Len(neighbours) : neighbours[j] # << >>}

TableFull == Cardinality(OccupiedSlots) = Len(neighbours)

\* C11: add_neighbor(id) fails with MaxNeighboursReached when every slot is
\* occupied and id is not in the table, and in no other situation; with a
\* free slot a new id is added and the call succeeds.
C11_MaxNeighboursOnlyWhenFullAndNew ==
    [][\A id \in PeerIds :
          AddNeighbour(id) =>
              /\ strict_ret' = "MaxNeighboursReached" <=>
                     (TableFull /\ id \notin NeighbourIds)
              /\ (~TableFull /\ id \notin NeighbourIds) =>
                     (strict_ret' = "Ok" /\ id \in NeighbourIds')]_vars

\* C12: add_neighbor(id) with id already in the table succeeds and leaves
\* the table unchanged, a full table included.
C12_AddNeighborIdempotent ==
    [][\A id \in PeerIds :
          (AddNeighbour(id) /\ id \in NeighbourIds) =>
              (strict_ret' = "Ok" /\ neighbours' = neighbours)]_vars

\* C13: whatever add and remove calls were made, no identity is in more
\* than one slot and at most capacity slots are occupied.
C13_NoDuplicateNeighbors ==
    /\ \A i, j \in OccupiedSlots :
           neighbours[i][1].peer_id = neighbours[j][1].peer_id => i = j
    /\ Cardinality(OccupiedSlots) <= NumNeighbors

\* C14: remove_neighbor(id) with id in the table leaves id no neighbor and
\* every other slot as it was; with id absent it leaves the table as it was
\* and reports NeighbourNotFound.
C14_RemoveNeighbor ==
    [][\A id \in PeerIds :
          RemoveNeighbour(id) =>
              IF id \in NeighbourIds
              THEN /\ strict_ret' = "Ok"
                   /\ id \notin NeighbourIds'
                   /\ \A i \in 1..Len(neighbours) :
                          (neighbours[i] = << >> \/ neighbours[i][1].peer_id # id) =>
                              neighbours'[i] = neighbours[i]
              ELSE /\ strict_ret' = "NeighbourNotFound"
                   /\ neighbours' = neighbours]_vars

\* C15: rating a current neighbor Positive raises its rating by exactly 1,
\* Negative lowers it by 1 or leaves it at 0; the rating stays in
\* [0, u32::MAX] with no wrap and no abort, and other slots are unchanged.
C15_RateNeighbour ==
    [][\A id \in PeerIds, rating \in {"Positive", "Negative"}, mode \in BuildModes :
          (RateNeighbour(id, rating, mode) /\ id \in NeighbourIds) =>
              LET index == NeighbourPosition(neighbours, id, 1)
                  old == neighbours[index][1].score
              IN  /\ strict_ret' = "Ok"
                  /\ neighbours'[index] # << >>
                  /\ neighbours'[index][1].peer_id = id
                  /\ neighbours'[index][1].score =
                         IF rating = "Positive" THEN BigAdd(old, <<1>>)
                         ELSE IF old = << >> THEN old
                         ELSE BigSub(old, <<1>>)
                  /\ BigCmp(neighbours'[index][1].score, U32Max) <= 0
                  /\ \A i \in 1..Len(neighbours) :
                         i # index => neighbours'[i] = neighbours[i]]_vars

(***************************************************************************)
(* Properties of the opinion caches                                        *)
(***************************************************************************)
\* C16: looking up a key that was never written is no error: the lookup
\* returns the empty opinion carrying the queried epoch, in every peer (the
\* strict peer's Err(OpinionNotFound) is the empty sequence).
C16_LookupMissIsEmptyOpinion ==
    \A peer_id \in PeerIds, k \in CalcEpochs :
        /\ <<peer_id, k>> \notin DOMAIN strict_local_opinion =>
               strict_get_local_opinion(<<peer_id, k>>) = <<OpinionEmpty(k)>>
        /\ <<peer_id, k>> \notin DOMAIN cached_neighbour_opinion =>
               get_neighbour_opinion(<<peer_id, k>>) = <<OpinionEmpty(k)>>

\* C16 as amended: in the default-returning peer a lookup of a key never
\* written returns the empty opinion carrying the queried epoch; in the
\* strict peer it returns Err(OpinionNotFound).
C16_LookupMissPerVariant ==
    \A peer_id \in PeerIds, k \in CalcEpochs :
        /\ <<peer_id, k>> \notin DOMAIN cached_local_opinion =>
               get_local_opinion(<<peer_id, k>>) = OpinionEmpty(k)
        /\ <<peer_id, k>> \notin DOMAIN cached_neighbor_opinion =>
               get_neighbor_opinion(<<peer_id, k>>) = OpinionEmpty(k)
        /\ <<peer_id, k>> \notin DOMAIN strict_local_opinion =>
               strict_get_local_opinion(<<peer_id, k>>) = << >>
        /\ <<peer_id, k>> \notin DOMAIN cached_neighbour_opinion =>
               get_neighbour_opinion(<<peer_id, k>>) = << >>

\* each of the four caches holds a written key, whose lookup returns what
\* was written, next to keys never written
C16_Witness ==
    /\ get_neighbor_opinion(<<"p1", 0>>) = ReceivedOpinion(0)
    /\ <<"p2", 0>> \notin DOMAIN cached_neighbor_opinion
    /\ get_local_opinion(<<"p1", 1>>) = StaleOpinion(1)
    /\ <<"p2", 1>> \notin DOMAIN cached_local_opinion
    /\ get_neighbour_opinion(<<"p1", 0>>) = <<ReceivedOpinion(0)>>
    /\ <<"p2", 0>> \notin DOMAIN cached_neighbour_opinion
    /\ strict_get_local_opinion(<<"p1", 1>>) = <<StaleOpinion(1)>>
    /\ <<"p2", 1>> \notin DOMAIN strict_local_opinion

\* this step writes key in the local cache: cache_local_opinion(key, _), or
\* calculate_local_opinions(k) with key = (a current neighbor, k.next())
LocalWrite(key) ==
    \/ \E k \in StaleEpochs : CacheLocalOpinion(key, StaleOpinion(k))
    \/ /\ last.op = "none"
       /\ last'.op = "calculate_local_opinions"
       /\ key[2] = EpochNext(last'.epoch)
       /\ \E i \in 1..Len(Neighbors) : Neighbors[i] = key[1]

NeighborWrite(key) ==
    \E k \in ReceivedEpochs : CacheNeighborOpinion(key, ReceivedOpinion(k))

\* C17: a cached opinion stays the answer for its key in its cache until
\* that key is written again in that cache, whatever add_neighbor,
\* remove_neighbor, rating changes, writes to other keys or writes to the
\* other cache come in between; a write makes its opinion the answer.
C17_CacheKeepsLastWrite ==
    [][/\ \A key \in DOMAIN cached_local_opinion :
              \/ /\ key \in DOMAIN cached_local_opinion'
                 /\ cached_local_opinion'[key] = cached_local_opinion[key]
              \/ LocalWrite(key)
       /\ \A key \in DOMAIN cached_neighbor_opinion :
              \/ /\ key \in DOMAIN cached_neighbor_opinion'
                 /\ cached_neighbor_opinion'[key] = cached_neighbor_opinion[key]
              \/ NeighborWrite(key)
       /\ \A peer_id \in PeerIds, k \in StaleEpochs :
              CacheLocalOpinion(<<peer_id, k>>, StaleOpinion(k)) =>
                  /\ <<peer_id, k>> \in DOMAIN cached_local_opinion'
                  /\ cached_local_opinion'[<<peer_id, k>>] = StaleOpinion(k)
       /\ \A peer_id \in PeerIds, k \in ReceivedEpochs :
              CacheNeighborOpinion(<<peer_id, k>>, ReceivedOpinion(k)) =>
                  /\ <<peer_id, k>> \in DOMAIN cached_neighbor_opinion'
                  /\ cached_neighbor_opinion'[<<peer_id, k>>] = ReceivedOpinion(k)
      ]_vars

\* opinions cached in both caches for a peer that is no neighbor (any more),
\* after ratings were set and with another peer in the table
C17_Witness ==
    /\ \E peer_id \in PeerIds, k \in StaleEpochs :
           /\ <<peer_id, k>> \in DOMAIN cached_local_opinion
           /\ get_local_opinion(<<peer_id, k>>) = StaleOpinion(k)
           /\ \A i \in 1..Len(Neighbors) : Neighbors[i] # peer_id
           /\ \E j \in ReceivedEpochs :
                  get_neighbor_opinion(<<peer_id, j>>) = ReceivedOpinion(j)
    /\ Neighbors # << >>
    /\ DOMAIN neighbor_scores # {}
    /\ ret = "Ok"


\* the buffer at hand is as long as the count passed asks:
\* bytes.len() = (2 * participants + 2) * 32, as numbers
CorrectLength ==
    NatToBig(Len(bytes)) =
        BigMulSmall(BigAdd(BigMulSmall(parsed.participants, 2), <<2>>), SCALAR_LEN)

\* chunk index of the buffer at hand writes a number below the field modulus
Canonical(index) ==
    BigCmp(ChunkValue(SubSeq(bytes, index * SCALAR_LEN + 1,
                             (index + 1) * SCALAR_LEN)), FrModulus) < 0

\* C18: codec round trip: for every ETPublicInputs value x with P
\* participants, P = 0 included, from_bytes(x.to_bytes(), P) succeeds and
\* returns participants, scores, domain and opinion_hash equal to those of x,
\* in the same order.
C18_RoundTripEveryValue ==
    (/\ parsed.op = "from_bytes"
     /\ inputs # << >>
     /\ bytes = to_bytes(inputs[1])
     /\ parsed.participants = NatToBig(Len(inputs[1].participants)))
    => /\ parsed.status = "Ok"
       /\ parsed.value = inputs

\* C18, for the values of the data model: for every ETPublicInputs value x
\* with P participants and as many scores, P = 0 included,
\* from_bytes(x.to_bytes(), P) succeeds and returns participants, scores,
\* domain and opinion_hash equal to those of x, in the same order.
C18_CodecRoundTrip ==
    (/\ parsed.op = "from_bytes"
     /\ inputs # << >>
     /\ Len(inputs[1].scores) = Len(inputs[1].participants)
     /\ bytes = to_bytes(inputs[1])
     /\ parsed.participants = NatToBig(Len(inputs[1].participants)))
    => /\ parsed.status = "Ok"
       /\ parsed.value = inputs

\* a value with two distinct participants and two distinct scores in another
\* order, serialized and parsed back with P = 2
C18_Witness ==
    /\ parsed.op = "from_bytes"
    /\ parsed.status = "Ok"
    /\ inputs # << >>
    /\ inputs[1].participants = <<FrOne, FrMax>>
    /\ inputs[1].scores = <<FrMax, FrOne>>
    /\ bytes = to_bytes(inputs[1])
    /\ parsed.participants = <<2>>
    /\ parsed.value = inputs

\* C19: for every participant count P >= 0 and every buffer whose length
\* differs from (2P + 2) * 32, from_bytes(bytes, P) returns a ParsingError
\* without reading any chunk and without panicking.
C19_WrongLengthIsParsingError ==
    (parsed.op = "from_bytes" /\ ~CorrectLength)
    => /\ parsed.status = "ParsingError"
       /\ parsed.reads = 0

\* C20: on a buffer of the correct length (2P + 2) * 32, from_bytes fails
\* with a ParsingError, and does not panic, if one of the chunks (participants,
\* scores, domain or opinion_hash) is no canonical field encoding, and
\* succeeds if every chunk is one, all-zero chunks included.
C20_CanonicalChunksDecide ==
    (parsed.op = "from_bytes" /\ CorrectLength)
    => IF \A index \in 0..(Len(bytes) \div SCALAR_LEN - 1) : Canonical(index)
       THEN parsed.status = "Ok"
       ELSE parsed.status = "ParsingError"

\* a buffer of the correct length for P = 2 whose opinion_hash chunk alone is
\* no canonical encoding, rejected after all six chunks were read
C20_Witness ==
    /\ parsed.op = "from_bytes"
    /\ parsed.participants = <<2>>
    /\ CorrectLength
    /\ \A index \in 0..4 : Canonical(index)
    /\ ~Canonical(5)
    /\ parsed.status = "ParsingError"
    /\ parsed.reads = 6


\* C21: every ETPublicInputs value built by ETPublicInputs::new has as many
\* scores as participants, and its to_bytes() is exactly
\* (2 * len(participants) + 2) * 32 bytes long: the 32-byte encodings of the
\* participants, then the scores, then domain, then opinion_hash, in the
\* order of to_vec().
C21_SerializedLayout ==
    inputs # << >> =>
        LET x == inputs[1]
            serialized == to_bytes(x)
        IN  /\ Len(x.scores) = Len(x.participants)
            /\ Len(serialized) = (2 * Len(x.participants) + 2) * SCALAR_LEN
            /\ \A i \in 1..Len(to_vec(x)) :
                   SubSeq(serialized, (i - 1) * SCALAR_LEN + 1, i * SCALAR_LEN)
                       = ScalarToBytes(to_vec(x)[i])


\* the number of indices the stream has emitted so far
Emitted == BigSub(stream.num, stream.remaining)

\* the number of boundaries start + j * interval, j >= 0, up to now
Boundaries ==
    IF BigCmp(clock, stream.start) < 0 THEN << >>
    ELSE BigAdd(BigDivMod(BigSub(clock, stream.start), stream.period)[1], <<1>>)

\* C22: the stream create_iter(start, interval, num) of a non-zero interval
\* emits exactly the indices 0, 1, ..., num - 1, in that order, each once
\* (the index emitted is the number of indices emitted before it, ticks
\* missed or not), none before the instant start; it ends after num indices
\* and stays ended.
C22_IndicesInOrder ==
    stream.period # << >> =>
        /\ stream.status # "panic"
        /\ polled.result = "Some" =>
               /\ BigAdd(polled.index, <<1>>) = Emitted
               /\ BigCmp(polled.at, stream.start) >= 0
        /\ stream.status = "done" =>
               /\ stream.remaining = << >>
               /\ polled.result = "None"

\* C23: ticks are skip-on-delay.  By any time the indices emitted are no
\* more than the boundaries start + j * interval reached; every deadline is
\* such a boundary; after an index is emitted the next deadline lies after
\* the instant of the emission and after the boundary that fired, so a stall
\* is followed by one tick, not by a burst, and no boundary fires twice.
C23_SkipOnDelay ==
    stream.period # << >> =>
        /\ BigCmp(Emitted, Boundaries) <= 0
        /\ BigCmp(stream.deadline, stream.start) >= 0
        /\ BigDivMod(BigSub(stream.deadline, stream.start), stream.period)[2] = << >>
        /\ polled.result = "Some" =>
               /\ BigCmp(stream.deadline, polled.at) > 0
               /\ BigCmp(stream.deadline, polled.boundary) > 0

\* the consumer stalled across a whole interval and more: the one tick
\* delivered after the stall, with boundaries left without a tick
C23_Witness ==
    /\ stream.status = "live"
    /\ polled.result = "Some"
    /\ polled.index # << >>
    /\ BigCmp(polled.at, BigAdd(polled.boundary, stream.period)) > 0
    /\ BigCmp(Emitted, Boundaries) < 0

\* C24: Epoch::current_epoch(interval) returns Epoch(floor(t / interval)),
\* t the wall-clock seconds since the reference; for every interval, 0
\* included, it fails only with EpochError and only when the clock is before
\* the reference, and never panics.
C24_CurrentEpoch ==
    epoch_ret.op = "current_epoch" =>
        IF epoch_ret.at < 0 THEN epoch_ret.status = "EpochError"
        ELSE /\ epoch_ret.status = "Ok"
             /\ epoch_ret.interval > 0 =>
                    /\ epoch_ret.value * epoch_ret.interval <= epoch_ret.at
                    /\ epoch_ret.at < (epoch_ret.value + 1) * epoch_ret.interval


\* C25: late opinions do not act retroactively.  After
\* calculate_local_opinions(E) a cache_neighbor_opinion((n, E'), o) with
\* E' <= E is stored in the neighbor cache and leaves every stored local
\* opinion unchanged; and calculate_local_opinions(E) writes only the local
\* keys (n, E.next()) of current neighbors n, leaving the neighbor table, the
\* ratings, the neighbor cache and every other local key unchanged.
C25_NoRetroactiveEffect ==
    [][/\ (/\ last.op = "calculate_local_opinions"
           /\ cached_neighbor_opinion' # cached_neighbor_opinion)
          => /\ cached_local_opinion' = cached_local_opinion
             /\ \E key \in DOMAIN cached_neighbor_opinion' :
                    /\ key[2] <= last.epoch
                    /\ cached_neighbor_opinion' =
                           MapInsert(cached_neighbor_opinion, key,
                                     cached_neighbor_opinion'[key])
       /\ (last.op = "none" /\ last'.op = "calculate_local_opinions")
          => /\ UNCHANGED <<neighbors, neighbor_scores, cached_neighbor_opinion>>
             /\ DOMAIN cached_local_opinion \subseteq DOMAIN cached_local_opinion'
             /\ \A key \in DOMAIN cached_local_opinion' :
                    \/ /\ key[2] = EpochNext(last'.epoch)
                       /\ \E i \in 1..Len(Neighbors) : Neighbors[i] = key[1]
                    \/ /\ key \in DOMAIN cached_local_opinion
                       /\ cached_local_opinion'[key] = cached_local_opinion[key]
      ]_vars

\* an opinion of a neighbor for epoch E came in after
\* calculate_local_opinions(E): the global score of E would now be another
\* one, and the local opinion stored for E.next() still carries the one
\* computed then
C25_Witness ==
    /\ last.op = "calculate_local_opinions"
    /\ last.result = "ok"
    /\ calculate_global_trust_score(last.epoch) # last.global_score
    /\ \E i \in 1..Len(Neighbors) :
           /\ <<Neighbors[i], last.epoch>> \in DOMAIN cached_neighbor_opinion
           /\ <<Neighbors[i], EpochNext(last.epoch)>> \in DOMAIN cached_local_opinion
           /\ cached_local_opinion[<<Neighbors[i], EpochNext(last.epoch)>>]
                  .global_trust_score = last.global_score


\* peer_id is in the neighbor table
IsNeighbor(peer_id) == \E i \in 1..Len(neighbors) : neighbors[i] = peer_id

\* the ratings of the occupants of the slots i.., summed as numbers
RECURSIVE SlotScores(_)
SlotScores(i) ==
    IF i > Len(neighbors) THEN << >>
    ELSE BigAdd(IF neighbors[i] # None /\ neighbors[i] \in DOMAIN neighbor_scores
                THEN neighbor_scores[neighbors[i]] ELSE << >>,
                SlotScores(i + 1))

\* acc plus the products of the opinions cached for epoch by the occupants of
\* the slots i.., added in slot order
RECURSIVE SlotProducts(_, _, _)
SlotProducts(epoch, i, acc) ==
    IF i > Len(neighbors) THEN acc
    ELSE SlotProducts(epoch, i + 1,
            IF neighbors[i] = None THEN acc
            ELSE F64Add(acc,
                        IF <<neighbors[i], epoch>> \in DOMAIN cached_neighbor_opinion
                        THEN cached_neighbor_opinion[<<neighbors[i], epoch>>].product
                        ELSE F64Zero(0)))

\* C26: only current neighbors count.  In every state reached by
\* add_neighbor, remove_neighbor, set_score and cache writes,
\* get_sum_of_scores is the sum of the ratings of the identities in the
\* neighbor table, get_normalized_score (here of a score of 1) divides by
\* that sum, and
\* calculate_global_trust_score adds up the cached opinions of those
\* identities only: the ratings and opinions of any other identity add
\* nothing.  And calculate_local_opinions writes no local opinion for an
\* identity that is not in the table.
C26_OnlyCurrentNeighborsCount ==
    /\ [](/\ \A mode \in BuildModes :
               LET sum == U32Sum(SlotScores(1), mode)
               IN  /\ get_sum_of_scores(mode) = sum
                   /\ \A score \in {<<1>>} :
                          get_normalized_score(score, mode) =
                              IF sum.panic THEN [panic |-> TRUE, value |-> F64Nan]
                              ELSE [panic |-> FALSE,
                                    value |-> F64Div(F64FromBig(score),
                                                     F64FromBig(sum.value))]
          /\ \A epoch \in CalcEpochs :
               calculate_global_trust_score(epoch) =
                   F64Add(F64Mul(F64Sub(F64FromBig(<<1>>), pre_trust_weight),
                                 SlotProducts(epoch, 1, F64Zero(0))),
                          F64Mul(pre_trust_weight, pre_trust_score)))
    /\ [][(last.op = "none" /\ last'.op = "calculate_local_opinions")
          => \A key \in DOMAIN cached_local_opinion' :
                 ~IsNeighbor(key[1]) =>
                     /\ key \in DOMAIN cached_local_opinion
                     /\ cached_local_opinion'[key] = cached_local_opinion[key]
         ]_vars

\* p1 was rated and its opinion cached, it is no neighbor now, and
\* calculate_local_opinions ran for the neighbors there are
C26_Witness ==
    /\ ~IsNeighbor("p1")
    /\ "p1" \in DOMAIN neighbor_scores
    /\ <<"p1", 0>> \in DOMAIN cached_neighbor_opinion
    /\ Neighbors # << >>
    /\ last.op = "calculate_local_opinions"
    /\ last.result = "ok"
    /\ last.epoch = 0
    /\ <<"p1", 1>> \notin DOMAIN cached_local_opinion
    /\ <<Neighbors[1], 1>> \in DOMAIN cached_local_opinion

\* the errors of the strict peer's calls
StrictErrors == {"MaxNeighboursReached", "NeighbourNotFound", "OpinionNotFound"}

\* C27: errors leave the peer unchanged.  A call of the strict peer that
\* returns MaxNeighboursReached (add_neighbour), NeighbourNotFound
\* (remove_neighbour, rate_neighbour) or OpinionNotFound
\* (calculate_local_opinions) leaves the neighbour table with its ratings and
\* both caches exactly as they were, so a failing calculate_local_opinions
\* writes no local opinion, not even for the neighbours it went through
\* before the miss; and an add_neighbor of the default-returning peer that
\* returns MaxNeighboursReached leaves its table, ratings and caches as they
\* were.  get_neighbour_opinion and get_local_opinion take &self and are
\* operators on the state: their OpinionNotFound changes nothing.
C27_ErrorsLeavePeerUnchanged ==
    [][/\ (strict_ret' \in StrictErrors) =>
             UNCHANGED <<neighbours, cached_neighbour_opinion, strict_local_opinion>>
       /\ (ret' = "MaxNeighboursReached") =>
             UNCHANGED <<neighbors, neighbor_scores, cached_neighbor_opinion,
                         cached_local_opinion>>
      ]_vars

\* calculate_local_opinions failed on a neighbour that comes after one whose
\* opinion was cached, with a full table that has refused an add_neighbour
C27_Witness ==
    /\ strict_last.op = "calculate_local_opinions"
    /\ strict_ret = "OpinionNotFound"
    /\ ret = "MaxNeighboursReached"
    /\ \E i, j \in 1..Len(neighbours) :
          /\ i < j
          /\ neighbours[i] # << >>
          /\ neighbours[j] # << >>
          /\ get_neighbour_opinion(<<neighbours[i][1].peer_id, strict_last.epoch>>) # << >>
          /\ get_neighbour_opinion(<<neighbours[j][1].peer_id, strict_last.epoch>>) = << >>
          /\ strict_get_local_opinion(<<neighbours[i][1].peer_id,
                                        EpochNext(strict_last.epoch)>>) = << >>
=============================================================================
